---- MODULE Spec2Model ----
(***************************************************************************)
(* A model of the patient-caller voice bot: the Flask webhooks of          *)
(* src/src/phone_system.py, the reply generator of src/src/conversation.py *)
(* and src/src/llm_client.py, and the transcript store of                  *)
(* src/src/transcript_manager.py.                                          *)
(*                                                                         *)
(* Text is modelled as Python models it: a string is the sequence of its   *)
(* characters, `in` is substring search, lower() maps characters.  The     *)
(* wall-clock timestamps the code writes into transcript entries and       *)
(* snapshots are left out; nothing in the code reads them back.            *)
(***************************************************************************)
EXTENDS Integers, Sequences, FiniteSets, TLC

VARIABLES
    active_calls,   \* phone_system.active_calls: call_sid -> CallSession
    files,          \* data/transcripts/<call_sid>.json: call_sid -> snapshot
    response,       \* the TwiML (or body) the last handler returned
    ev,             \* what the last handler did (observation only)
    varied,         \* how many non-default inputs the environment has used
    fin,            \* input of a function applied in isolation
    fout,           \* its result
    heap,           \* the CallSession objects, when requests run in threads
    threads         \* the request each server thread is serving, and where it is

vars == <<active_calls, files, response, ev, varied, fin, fout, heap, threads>>

----------------------------------------------------------------------------
(* Python str operations *)

lower_char(c) ==
    CASE c = "A" -> "a" [] c = "B" -> "b" [] c = "C" -> "c" [] c = "D" -> "d"
      [] c = "E" -> "e" [] c = "F" -> "f" [] c = "G" -> "g" [] c = "H" -> "h"
      [] c = "I" -> "i" [] c = "J" -> "j" [] c = "K" -> "k" [] c = "L" -> "l"
      [] c = "M" -> "m" [] c = "N" -> "n" [] c = "O" -> "o" [] c = "P" -> "p"
      [] c = "Q" -> "q" [] c = "R" -> "r" [] c = "S" -> "s" [] c = "T" -> "t"
      [] c = "U" -> "u" [] c = "V" -> "v" [] c = "W" -> "w" [] c = "X" -> "x"
      [] c = "Y" -> "y" [] c = "Z" -> "z" [] OTHER -> c

\* str.lower()
str_lower(s) == [i \in 1..Len(s) |-> lower_char(s[i])]

\* `p in s` for strings: p occurs in s as a contiguous run of characters
str_in(p, s) ==
    \/ Len(p) = 0
    \/ \E i \in 1..(Len(s) - Len(p) + 1) :
          s[i] = p[1] /\ SubSeq(s, i, i + Len(p) - 1) = p

\* any(p in s for p in phrases)
any_in(phrases, s) == \E k \in 1..Len(phrases) : str_in(phrases[k], s)

\* str.strip(): leading and trailing blanks removed
RECURSIVE str_lstrip(_)
str_lstrip(s) ==
    IF Len(s) > 0 /\ Head(s) = " " THEN str_lstrip(Tail(s)) ELSE s

RECURSIVE str_rstrip(_)
str_rstrip(s) ==
    IF Len(s) > 0 /\ s[Len(s)] = " " THEN str_rstrip(SubSeq(s, 1, Len(s) - 1)) ELSE s

str_strip(s) == str_rstrip(str_lstrip(s))

\* dict.get(k, default)
dict_get(d, k, default) == IF k \in DOMAIN d THEN d[k] ELSE default

\* the empty dict
EmptyDict == [k \in {} |-> <<>>]

----------------------------------------------------------------------------
(* phone_system.py: the phrase tables *)

CLOSING_PHRASES ==
    << <<"h","a","v","e"," ","a"," ","g","r","e","a","t"," ","d","a","y">>,   \* "have a great day"
       <<"h","a","v","e"," ","a"," ","g","o","o","d"," ","d","a","y">>,   \* "have a good day"
       <<"t","h","a","n","k","s"," ","f","o","r"," ","c","a","l","l","i","n","g">>,   \* "thanks for calling"
       <<"t","h","a","n","k"," ","y","o","u"," ","f","o","r"," ","c","a","l","l","i","n","g">>,   \* "thank you for calling"
       <<"g","o","o","d","b","y","e">>,   \* "goodbye"
       <<"b","y","e"," ","f","o","r"," ","n","o","w">>,   \* "bye for now"
       <<"t","a","k","e"," ","c","a","r","e">>,   \* "take care"
       <<"t","h","a","n","k","s"," ","a","g","a","i","n">>,   \* "thanks again"
       <<"t","h","a","n","k"," ","y","o","u"," ","a","g","a","i","n">> >>   \* "thank you again"

end_phrases ==
    << <<"g","o","o","d","b","y","e">>,   \* "goodbye"
       <<"h","a","v","e"," ","a"," ","g","r","e","a","t"," ","d","a","y">>,   \* "have a great day"
       <<"h","a","v","e"," ","a"," ","g","o","o","d"," ","d","a","y">>,   \* "have a good day"
       <<"t","a","k","e"," ","c","a","r","e">>,   \* "take care"
       <<"t","h","a","n","k","s"," ","f","o","r"," ","c","a","l","l","i","n","g">> >>   \* "thanks for calling"

goal_indicators ==
    << <<"a","p","p","o","i","n","t","m","e","n","t"," ","i","s"," ","s","c","h","e","d","u","l","e","d">>,   \* "appointment is scheduled"
       <<"a","p","p","o","i","n","t","m","e","n","t"," ","i","s"," ","c","o","n","f","i","r","m","e","d">>,   \* "appointment is confirmed"
       <<"a","p","p","o","i","n","t","m","e","n","t"," ","o","n">>,   \* "appointment on"
       <<"s","e","e"," ","y","o","u"," ","o","n">>,   \* "see you on"
       <<"w","e","'","l","l"," ","s","e","n","d"," ","y","o","u">>,   \* "we'll send you"
       <<"c","o","n","f","i","r","m","a","t","i","o","n">>,   \* "confirmation"
       <<"a","l","l"," ","s","e","t">>,   \* "all set"
       <<"y","o","u","'","r","e"," ","a","l","l"," ","s","e","t">> >>   \* "you're all set"

MIN_TURNS_BEFORE_CLOSE == 3

THANK_YOU_GOODBYE ==
    <<"T","h","a","n","k"," ","y","o","u",","," ","g","o","o","d","b","y","e",".">>   \* "Thank you, goodbye."

OKAY_THANK_YOU ==
    <<"O","k","a","y",","," ","t","h","a","n","k"," ","y","o","u",".">>   \* "Okay, thank you."

HELLO ==
    <<"H","e","l","l","o","?">>   \* "Hello?"

\* is_closing_utterance comparing without lower()
is_closing_utterance_cased(text) ==
    IF Len(text) = 0 THEN FALSE
    ELSE any_in(CLOSING_PHRASES, text)

\* is_closing_utterance(text)
is_closing_utterance(text) ==
    IF Len(text) = 0 THEN FALSE
    ELSE any_in(CLOSING_PHRASES, str_lower(text))

\* goal_seems_achieved assigning the flag from the current utterance alone
goal_seems_achieved_unlatched(goal_achieved, agent_lower) ==
    any_in(goal_indicators, agent_lower)

\* should_end_call, "Check if goal seems achieved": the flag is only ever set
goal_seems_achieved(goal_achieved, agent_lower) ==
    IF any_in(goal_indicators, agent_lower) THEN TRUE ELSE goal_achieved

\* agent_clearly_ending with the turn budget one turn late
agent_clearly_ending_late(has_ending_phrase, goal_achieved, turn_count) ==
    has_ending_phrase /\ (goal_achieved \/ turn_count > 20)

\* should_end_call, "Only end if agent clearly ending AND (goal achieved OR
\* too many turns)"
agent_clearly_ending(has_ending_phrase, goal_achieved, turn_count) ==
    has_ending_phrase /\ (goal_achieved \/ turn_count >= 20)

\* safety_cap that never forces the end
safety_cap_off(turn_count) == FALSE

\* should_end_call, "Safety: force end after 25 turns"
safety_cap(turn_count) == turn_count >= 25

\* CallSession.should_end_call(agent_text): the value returned and the
\* goal_achieved flag the call leaves in the session
should_end_call(session, agent_text) ==
    IF session.turn_count < MIN_TURNS_BEFORE_CLOSE
    THEN [result |-> FALSE, goal_achieved |-> session.goal_achieved]
    ELSE
      LET agent_lower == str_lower(agent_text)
          goal_achieved == goal_seems_achieved(session.goal_achieved, agent_lower)
          has_ending_phrase == any_in(end_phrases, agent_lower)
      IN  IF agent_clearly_ending(has_ending_phrase, goal_achieved, session.turn_count)
          THEN [result |-> TRUE, goal_achieved |-> goal_achieved]
          ELSE IF safety_cap(session.turn_count)
          THEN [result |-> TRUE, goal_achieved |-> goal_achieved]
          ELSE [result |-> FALSE, goal_achieved |-> goal_achieved]

----------------------------------------------------------------------------
(* scenario_loader.py as the sessions use it: get_scenario_by_name returns  *)
(* a scenario dict or raises ValueError.  The scenario files themselves are *)
(* configuration; these are the ones the model's environment holds.         *)

GOAL_APPOINTMENT ==
    <<"S","c","h","e","d","u","l","e"," ","a","n"," ","a","p","p","o","i","n","t","m","e","n","t">>   \* "Schedule an appointment"
GOAL_REFILL ==
    <<"G","e","t"," ","a"," ","m","e","d","i","c","a","t","i","o","n"," ","r","e","f","i","l","l">>   \* "Get a medication refill"
GOAL_RESCHEDULE ==
    <<"R","e","s","c","h","e","d","u","l","e"," ","m","y"," ","a","p","p","o","i","n","t","m","e","n","t">>   \* "Reschedule my appointment"
GOAL_CANCEL ==
    <<"C","a","n","c","e","l"," ","m","y"," ","v","i","s","i","t">>   \* "Cancel my visit"
GOAL_OTHER ==
    <<"A","s","k"," ","a","b","o","u","t"," ","b","i","l","l","i","n","g">>   \* "Ask about billing"
NAME_LUCAS ==
    <<"L","u","c","a","s">>   \* "Lucas"
NAME_SAM ==
    <<"S","a","m">>   \* "Sam"
DOB_DEFAULT ==
    <<"0","2","/","1","7","/","2","0","2","6">>   \* "02/17/2026"
DOB_1970 ==
    <<"1","9","7","0","-","0","1","-","0","1">>   \* "1970-01-01"

Scenario(name, patient_context) ==
    [name |-> name, description |-> "", test_type |-> "standard",
     patient_context |-> patient_context]

ScenarioFiles ==
    [appointment_scheduling |->
        Scenario("appointment_scheduling",
                 [name |-> NAME_LUCAS, dob |-> DOB_DEFAULT, goal |-> GOAL_APPOINTMENT]),
     medication_refill |->
        Scenario("medication_refill",
                 [name |-> NAME_LUCAS, dob |-> DOB_DEFAULT, goal |-> GOAL_REFILL]),
     reschedule |->
        Scenario("reschedule",
                 [name |-> NAME_LUCAS, dob |-> DOB_DEFAULT, goal |-> GOAL_RESCHEDULE]),
     cancel_1970 |->
        Scenario("cancel_1970",
                 [caller_name |-> NAME_SAM, dob |-> DOB_1970, goal |-> GOAL_CANCEL]),
     billing |->
        Scenario("billing", [name |-> NAME_LUCAS, goal |-> GOAL_OTHER]),
     legacy_no_goal |->
        Scenario("legacy_no_goal", [name |-> NAME_LUCAS]),
     legacy_no_context |->
        [name |-> "legacy_no_context", description |-> "", test_type |-> "standard"]]

\* get_scenario_by_name(name): ok = FALSE stands for the ValueError
get_scenario_by_name(name) ==
    IF name \in DOMAIN ScenarioFiles
    THEN [ok |-> TRUE, scenario |-> ScenarioFiles[name]]
    ELSE [ok |-> FALSE, scenario |-> EmptyDict]

----------------------------------------------------------------------------
(* llm_client.py *)

truncated_fragments ==
    << <<"i"," ","n","e","e","d">>,   \* "i need"
       <<"i"," ","w","o","u","l","d"," ","l","i","k","e">> >>   \* "i would like"

REPEAT_THAT ==
    <<"I","'","m"," ","s","o","r","r","y",","," ","c","o","u","l","d"," ","y","o","u"," ","r","e","p","e","a","t"," ","t","h","a","t","?">>   \* "I'm sorry, could you repeat that?"

\* What client.chat.completions.create does is the environment's choice:
\* it raises, or it answers with a message whose content is None or a text.
LlmRaises == [kind |-> "raise", content |-> <<>>]
LlmNone == [kind |-> "none", content |-> <<>>]
LlmText(s) == [kind |-> "text", content |-> s]

\* generate_patient_reply without the guard on short and truncated replies
generate_patient_reply_unguarded(llm) ==
    IF llm.kind = "raise" THEN [raised |-> TRUE, text |-> <<>>]
    ELSE [raised |-> FALSE,
          text |-> str_strip(IF llm.kind = "none" THEN <<>> ELSE llm.content)]

\* generate_patient_reply(messages): raised = TRUE stands for the exception
\* of the API call, which the function does not catch
generate_patient_reply(llm) ==
    IF llm.kind = "raise" THEN [raised |-> TRUE, text |-> <<>>]
    ELSE
      LET text == str_strip(IF llm.kind = "none" THEN <<>> ELSE llm.content)
      IN  IF \/ Len(text) = 0
             \/ Len(text) < 8
             \/ \E k \in 1..Len(truncated_fragments) :
                    str_lower(text) = truncated_fragments[k]
          THEN [raised |-> FALSE, text |-> REPEAT_THAT]
          ELSE [raised |-> FALSE, text |-> text]

----------------------------------------------------------------------------
(* conversation.py *)

\* ConversationManager.__init__(scenario)
ConversationManager(scenario) ==
    [present |-> TRUE, scenario |-> scenario,
     conversation_history |-> <<>>, turn_count |-> 0]

\* conversation_manager = None
NoManager ==
    [present |-> FALSE, scenario |-> EmptyDict,
     conversation_history |-> <<>>, turn_count |-> 0]

\* generate_system_prompt(): only whether it raises KeyError matters to the
\* caller; scenario["patient_context"] and context['goal'] are indexed
generate_system_prompt(cm) ==
    IF "patient_context" \notin DOMAIN cm.scenario
    THEN [raised |-> TRUE]
    ELSE [raised |-> "goal" \notin DOMAIN cm.scenario["patient_context"]]

\* a or b, for strings (None and "" are both falsy)
str_or(a, b) == IF Len(a) > 0 THEN a ELSE b

\* sep.join(parts)
RECURSIVE str_join(_, _)
str_join(sep, parts) ==
    IF Len(parts) = 0 THEN <<>>
    ELSE IF Len(parts) = 1 THEN parts[1]
    ELSE parts[1] \o sep \o str_join(sep, Tail(parts))

goal_keywords ==
    << [goal_type |-> <<"a","p","p","o","i","n","t","m","e","n","t">>,   \* "appointment"
        keywords |->
          << <<"s","c","h","e","d","u","l","e","d">>,   \* "scheduled"
             <<"a","p","p","o","i","n","t","m","e","n","t"," ","i","s">>,   \* "appointment is"
             <<"b","o","o","k","e","d">>,   \* "booked"
             <<"s","e","e"," ","y","o","u"," ","o","n">>,   \* "see you on"
             <<"c","o","n","f","i","r","m","a","t","i","o","n">> >>],   \* "confirmation"
       [goal_type |-> <<"r","e","f","i","l","l">>,   \* "refill"
        keywords |->
          << <<"p","r","e","s","c","r","i","p","t","i","o","n">>,   \* "prescription"
             <<"r","e","f","i","l","l">>,   \* "refill"
             <<"p","h","a","r","m","a","c","y">>,   \* "pharmacy"
             <<"s","e","n","t"," ","t","o">>,   \* "sent to"
             <<"f","i","l","l","e","d">> >>],   \* "filled"
       [goal_type |-> <<"r","e","s","c","h","e","d","u","l","e">>,   \* "reschedule"
        keywords |->
          << <<"r","e","s","c","h","e","d","u","l","e","d">>,   \* "rescheduled"
             <<"m","o","v","e","d">>,   \* "moved"
             <<"c","h","a","n","g","e","d">>,   \* "changed"
             <<"n","e","w"," ","t","i","m","e">> >>],   \* "new time"
       [goal_type |-> <<"c","a","n","c","e","l">>,   \* "cancel"
        keywords |->
          << <<"c","a","n","c","e","l","l","e","d">>,   \* "cancelled"
             <<"c","a","n","c","e","l","e","d">>,   \* "canceled"
             <<"r","e","m","o","v","e","d"," ","f","r","o","m">> >>] >>   \* "removed from"

\* _is_goal_completed matching the keywords against the text as it came,
\* not lowercased
is_goal_completed_unlowered(scenario, conversation_text) ==
    LET context == dict_get(scenario, "patient_context", EmptyDict)
        goal == str_lower(dict_get(context, "goal", <<>>))
        matching == {k \in 1..Len(goal_keywords) :
                        str_in(goal_keywords[k].goal_type, goal)}
    IN  IF matching = {} THEN FALSE
        ELSE LET first == CHOOSE k \in matching : \A j \in matching : k <= j
             IN  any_in(goal_keywords[first].keywords, conversation_text)

\* _is_goal_completed without the break: every category named in the goal
\* is tried
is_goal_completed_any_category(scenario, conversation_text) ==
    LET context == dict_get(scenario, "patient_context", EmptyDict)
        goal == str_lower(dict_get(context, "goal", <<>>))
        text == str_lower(conversation_text)
    IN  \E k \in 1..Len(goal_keywords) :
            /\ str_in(goal_keywords[k].goal_type, goal)
            /\ any_in(goal_keywords[k].keywords, text)

\* ConversationManager._is_goal_completed(conversation_text): the first
\* category whose name occurs in the goal decides (the loop breaks there)
is_goal_completed(scenario, conversation_text) ==
    LET context == dict_get(scenario, "patient_context", EmptyDict)
        goal == str_lower(dict_get(context, "goal", <<>>))
        text == str_lower(conversation_text)
        matching == {k \in 1..Len(goal_keywords) :
                        str_in(goal_keywords[k].goal_type, goal)}
    IN  IF matching = {} THEN FALSE
        ELSE LET first == CHOOSE k \in matching : \A j \in matching : k <= j
             IN  any_in(goal_keywords[first].keywords, text)

verification_phrases ==
    << <<"s","p","e","a","k","i","n","g"," ","w","i","t","h">>,   \* "speaking with"
       <<"d","a","t","e"," ","o","f"," ","b","i","r","t","h">>,   \* "date of birth"
       <<"v","e","r","i","f","y"," ","y","o","u","r"," ","i","d","e","n","t","i","t","y">>,   \* "verify your identity"
       <<"c","o","n","f","i","r","m"," ","y","o","u","r"," ","i","n","f","o","r","m","a","t","i","o","n">>,   \* "confirm your information"
       <<"y","o","u","r"," ","n","a","m","e">>,   \* "your name"
       <<"w","h","o"," ","i","s"," ","t","h","i","s">> >>   \* "who is this"

completion_signals ==
    << <<"i","s"," ","t","h","e","r","e"," ","a","n","y","t","h","i","n","g"," ","e","l","s","e">>,   \* "is there anything else"
       <<"a","n","y","t","h","i","n","g"," ","e","l","s","e"," ","i"," ","c","a","n"," ","h","e","l","p">> >>   \* "anything else i can help"

SPEAKING_WITH ==
    <<"s","p","e","a","k","i","n","g"," ","w","i","t","h">>   \* "speaking with"
YOUR_NAME ==
    <<"y","o","u","r"," ","n","a","m","e">>   \* "your name"
WHO_IS_THIS ==
    <<"w","h","o"," ","i","s"," ","t","h","i","s">>   \* "who is this"
DATE_OF_BIRTH ==
    <<"d","a","t","e"," ","o","f"," ","b","i","r","t","h">>   \* "date of birth"
DOB_WORD ==
    <<"d","o","b">>   \* "dob"
DOB_REPLY_1970 ==
    <<"J","a","n","u","a","r","y"," ","1","s","t",","," ","1","9","7","0",".">>   \* "January 1st, 1970."
DOB_REPLY_2026 ==
    <<"F","e","b","r","u","a","r","y"," ","1","7","t","h",","," ","2","0","2","6",".">>   \* "February 17th, 2026."
YES_THIS_IS ==
    <<"Y","e","s",","," ","t","h","i","s"," ","i","s"," ">>   \* "Yes, this is "
NO_THATS_ALL ==
    <<"N","o",","," ","t","h","a","t","'","s"," ","a","l","l","."," ","T","h","a","n","k"," ","y","o","u","!">>   \* "No, that's all. Thank you!"
AGENT_PREFIX ==
    <<"A","g","e","n","t",":"," ">>   \* "Agent: "

\* the except branch of generate_reply, left out: the exception goes on to
\* the caller
llm_failure_reraised(cm) ==
    [raised |-> TRUE, reply |-> <<>>, cm |-> cm, llm_calls |-> 1]

\* the except branch of generate_reply: the failure of the completion call
\* is logged and the clarification request returned; nothing is retried and
\* the history is left as it was
llm_failure(cm) ==
    [raised |-> FALSE, reply |-> REPEAT_THAT, cm |-> cm, llm_calls |-> 1]

\* ConversationManager.generate_reply(agent_text, confidence) with the
\* completion capability answering llm.  raised = TRUE stands for the
\* KeyError of generate_system_prompt, which generate_reply does not catch.
generate_reply(cm, agent_text, confidence, llm) ==
    LET agent_lower == str_lower(agent_text)
        context == dict_get(cm.scenario, "patient_context", EmptyDict)
        scenario_dob == dict_get(context, "dob", DOB_DEFAULT)
        scenario_name ==
            str_or(dict_get(context, "name", <<>>),
                   str_or(dict_get(context, "caller_name", <<>>), NAME_LUCAS))
        dob_reply == IF scenario_dob = DOB_1970 THEN DOB_REPLY_1970 ELSE DOB_REPLY_2026
        name_reply == YES_THIS_IS \o scenario_name \o <<".">>
        verification_phase == any_in(verification_phrases, agent_lower)
        has_completion_signal == any_in(completion_signals, agent_lower)
        history_str ==
            str_join(<<" ">>, [i \in 1..Len(cm.conversation_history) |->
                                   cm.conversation_history[i].content])
        full_context == history_str \o <<" ">> \o agent_text
        direct(text) ==
            [raised |-> FALSE, reply |-> text, cm |-> cm, llm_calls |-> 0]
        generated == generate_patient_reply(llm)
    IN  IF /\ verification_phase
           /\ \/ str_in(SPEAKING_WITH, agent_lower)
              \/ str_in(YOUR_NAME, agent_lower)
              \/ str_in(WHO_IS_THIS, agent_lower)
        THEN direct(name_reply)
        ELSE IF /\ verification_phase
                /\ \/ str_in(DATE_OF_BIRTH, agent_lower)
                   \/ str_in(DOB_WORD, agent_lower)
        THEN direct(dob_reply)
        ELSE IF has_completion_signal /\ is_goal_completed(cm.scenario, full_context)
        THEN direct(NO_THATS_ALL)
        ELSE IF generate_system_prompt(cm).raised
        THEN [raised |-> TRUE, reply |-> <<>>, cm |-> cm, llm_calls |-> 0]
        ELSE IF generated.raised
        THEN llm_failure(cm)
        ELSE [raised |-> FALSE, reply |-> generated.text,
              cm |-> [cm EXCEPT
                        !.conversation_history =
                            @ \o << [role |-> "user", content |-> AGENT_PREFIX \o agent_text],
                                    [role |-> "assistant", content |-> generated.text] >>,
                        !.turn_count = @ + 1],
              llm_calls |-> 1]

\* ConversationManager.get_scenario_info()
get_scenario_info(cm) ==
    [name |-> cm.scenario["name"],
     description |-> dict_get(cm.scenario, "description", ""),
     test_type |-> dict_get(cm.scenario, "test_type", "standard"),
     turn_count |-> cm.turn_count]

----------------------------------------------------------------------------
(* transcript_manager.py: the transcript store.  A file holds the JSON      *)
(* object that was dumped into it, modelled as the dict itself.             *)

\* save_transcript updating the file that is there instead of replacing
\* it: what the file already holds is kept
tm_save_transcript_update(fs, call_sid, transcript_data, write_ok) ==
    LET full_data ==
            transcript_data @@
            [call_sid |-> call_sid,
             status |-> dict_get(transcript_data, "status", "in_progress")]
    IN  IF ~write_ok THEN fs
        ELSE IF call_sid \in DOMAIN fs
        THEN [fs EXCEPT ![call_sid] = @ @@ full_data]
        ELSE (call_sid :> full_data) @@ fs

\* save_transcript keeping one file for all calls: a write replaces every
\* file of the store
tm_save_transcript_one_file(fs, call_sid, transcript_data, write_ok) ==
    LET full_data ==
            transcript_data @@
            [call_sid |-> call_sid,
             status |-> dict_get(transcript_data, "status", "in_progress")]
    IN  IF write_ok THEN [c \in DOMAIN fs \cup {call_sid} |-> full_data] ELSE fs

\* TranscriptManager.save_transcript(call_sid, transcript_data); write_ok =
\* FALSE stands for open()/json.dump raising, which the method absorbs
tm_save_transcript(fs, call_sid, transcript_data, write_ok) ==
    LET full_data ==
            transcript_data @@
            [call_sid |-> call_sid,
             status |-> dict_get(transcript_data, "status", "in_progress")]
    IN  IF write_ok THEN (call_sid :> full_data) @@ fs ELSE fs

\* TranscriptManager.enrich_with_whisper(call_sid, whisper_transcript)
enrich_with_whisper(fs, call_sid, whisper_transcript, write_ok) ==
    IF call_sid \notin DOMAIN fs THEN [enriched |-> FALSE, files |-> fs]
    ELSE IF ~write_ok THEN [enriched |-> FALSE, files |-> fs]
    ELSE [enriched |-> TRUE,
          files |-> [fs EXCEPT ![call_sid] =
                        ("whisper_transcription" :>
                            [full_text |-> whisper_transcript.text]) @@ @]]

\* TranscriptManager.load_transcript(call_sid)
load_transcript(fs, call_sid) ==
    IF call_sid \notin DOMAIN fs THEN [found |-> FALSE, data |-> EmptyDict]
    ELSE [found |-> TRUE, data |-> fs[call_sid]]

----------------------------------------------------------------------------
(* phone_system.py: CallSession *)

\* CallSession.__init__(call_sid, scenario_name): a scenario that does not
\* load leaves conversation_manager = None
CallSession(call_sid, scenario_name) ==
    LET loaded == get_scenario_by_name(scenario_name)
    IN  [call_sid |-> call_sid,
         turn_count |-> 0,
         transcript |-> <<>>,
         scenario_name |-> scenario_name,
         goal_achieved |-> FALSE,
         conversation_manager |->
             IF loaded.ok THEN ConversationManager(loaded.scenario) ELSE NoManager]

\* the "status" CallSession.save_transcript writes
session_status(session) ==
    IF session.turn_count < 25 /\ ~session.goal_achieved
    THEN "in_progress" ELSE "completed"

\* CallSession.save_transcript()
session_save_transcript(fs, session, write_ok) ==
    LET base == [scenario_name |-> session.scenario_name,
                 transcript |-> session.transcript,
                 turn_count |-> session.turn_count,
                 status |-> session_status(session)]
        transcript_data ==
            IF session.conversation_manager.present
            THEN ("scenario_info" :> get_scenario_info(session.conversation_manager)) @@ base
            ELSE base
    IN  tm_save_transcript(fs, session.call_sid, transcript_data, write_ok)

----------------------------------------------------------------------------
(* phone_system.py: TwiML.  A response is the sequence of its verbs. *)

Pause(length) == [verb |-> "Pause", arg |-> length]
Say(text) == [verb |-> "Say", arg |-> text]
Hangup == [verb |-> "Hangup", arg |-> <<>>]
Gather(timeout) == [verb |-> "Gather", arg |-> timeout]
\* the plain "OK" body of the status webhooks
OkBody == << [verb |-> "OK", arg |-> <<>>] >>

----------------------------------------------------------------------------
(* phone_system.py: the reply path *)

dob_keys ==
    << <<"d","a","t","e"," ","o","f"," ","b","i","r","t","h">>,   \* "date of birth"
       <<"b","i","r","t","h","d","a","y">> >>   \* "birthday"
phone_keys ==
    << <<"p","h","o","n","e">>,   \* "phone"
       <<"c","a","l","l","b","a","c","k">>,   \* "callback"
       <<"n","u","m","b","e","r">> >>   \* "number"
NAME_KEY ==
    <<"n","a","m","e">>   \* "name"
FALLBACK_DOB ==
    <<"F","e","b","r","u","a","r","y"," ","1","7","t","h",","," ","2","0","2","6">>   \* "February 17th, 2026"
THATS_CORRECT ==
    <<"Y","e","s",","," ","t","h","a","t","'","s"," ","c","o","r","r","e","c","t",".">>   \* "Yes, that's correct."

\* the rule table with the name rule tried before the phone rule
generate_simple_reply_fallback_name_first(agent_text) ==
    LET agent_lower == str_lower(agent_text)
    IN  IF any_in(dob_keys, agent_lower) THEN FALLBACK_DOB
        ELSE IF str_in(NAME_KEY, agent_lower) THEN NAME_LUCAS
        ELSE IF any_in(phone_keys, agent_lower) THEN THATS_CORRECT
        ELSE OKAY_THANK_YOU

\* generate_simple_reply_fallback(agent_text)
generate_simple_reply_fallback(agent_text) ==
    LET agent_lower == str_lower(agent_text)
    IN  IF any_in(dob_keys, agent_lower) THEN FALLBACK_DOB
        ELSE IF any_in(phone_keys, agent_lower) THEN THATS_CORRECT
        ELSE IF str_in(NAME_KEY, agent_lower) THEN NAME_LUCAS
        ELSE OKAY_THANK_YOU

\* generate_gpt_reply(call_sid, agent_text, confidence): the reply, the
\* conversation manager as the call leaves it, and the completion calls made
generate_gpt_reply(calls, call_sid, agent_text, confidence, llm) ==
    IF call_sid \notin DOMAIN calls
    THEN [reply |-> OKAY_THANK_YOU, cm |-> NoManager, llm_calls |-> 0]
    ELSE
      LET session == calls[call_sid]
          cm == session.conversation_manager
          r == generate_reply(cm, agent_text, confidence, llm)
      IN  IF cm.present /\ ~r.raised
          THEN [reply |-> r.reply, cm |-> r.cm, llm_calls |-> r.llm_calls]
          ELSE [reply |-> generate_simple_reply_fallback(agent_text),
                cm |-> cm, llm_calls |-> IF cm.present THEN r.llm_calls ELSE 0]

----------------------------------------------------------------------------
(* phone_system.py: handle_agent_response, step by step *)

\* float(confidence_str), in hundredths; a string that is no number gives
\* the ValueError the handler turns into 0.0
float_of(s) ==
    CASE s = "1.0" -> [ok |-> TRUE, value |-> 100]
      [] s = "0.95" -> [ok |-> TRUE, value |-> 95]
      [] s = "0.5" -> [ok |-> TRUE, value |-> 50]
      [] OTHER -> [ok |-> FALSE, value |-> 0]

parse_confidence(confidence_str) ==
    IF float_of(confidence_str).ok THEN float_of(confidence_str).value ELSE 0

\* "Save agent turn": the transcript entry, then turn_count += 1
count_agent_turn(session, agent_speech, confidence) ==
    [session EXCEPT
        !.transcript = Append(@, [speaker |-> "agent", text |-> agent_speech,
                                  turn |-> session.turn_count,
                                  confidence |-> confidence]),
        !.turn_count = @ + 1]

\* closing_exit without the minimum-turns guard
closing_exit_no_min(session, agent_speech) ==
    is_closing_utterance(agent_speech)

\* closing_exit left out, as before the early exit was written
closing_exit_absent(session, agent_speech) == FALSE

\* the early exit: the agent clearly closed the call
closing_exit(session, agent_speech) ==
    /\ session.turn_count >= MIN_TURNS_BEFORE_CLOSE
    /\ is_closing_utterance(agent_speech)

\* count_patient_turn without the increment
count_patient_turn_uncounted(session, patient_reply) ==
    [session EXCEPT
        !.transcript = Append(@, [speaker |-> "patient",
                                  text |-> str_or(patient_reply, THANK_YOU_GOODBYE),
                                  turn |-> session.turn_count])]

\* the patient's transcript entry, then turn_count += 1
count_patient_turn(session, patient_reply) ==
    [session EXCEPT
        !.transcript = Append(@, [speaker |-> "patient",
                                  text |-> str_or(patient_reply, THANK_YOU_GOODBYE),
                                  turn |-> session.turn_count]),
        !.turn_count = @ + 1]

\* the TwiML of the should-end exit and of the empty-reply branch
goodbye_twiml == << Pause(<<"1">>), Say(THANK_YOU_GOODBYE), Hangup >>

\* the TwiML that speaks the patient's reply
reply_twiml(patient_reply) ==
    IF Len(patient_reply) > 0
    THEN << Pause(<<"1", ".", "5">>), Say(patient_reply), Gather(<<"1", "0">>) >>
    ELSE goodbye_twiml

\* what generate_gpt_reply finds in active_calls when the handler runs
\* without interruption: the session the handler holds
Registered(session) ==
    [registered |-> TRUE, same |-> TRUE, cm |-> session.conversation_manager]

\* what it finds when call_sid has been removed meanwhile
Unregistered == [registered |-> FALSE, same |-> FALSE, cm |-> NoManager]

\* handle_agent_response() from "Save agent turn" on, for the session the
\* handler holds: the session, the store and the response it leaves, the
\* exit it took, turn_count as it stood once the agent's turn was counted,
\* and the completion calls it made.  generate_gpt_reply looks call_sid up
\* in active_calls again: reg says whether it is registered then, whether
\* the session registered is the one the handler holds, and what
\* conversation manager that session has; reg_cm is that manager as the
\* reply leaves it.  write1 and write2 say whether the two transcript writes
\* succeed.
respond(session, reg, fs, call_sid, agent_speech, confidence_str, llm, write1, write2) ==
    LET confidence == parse_confidence(confidence_str)
        session1 == count_agent_turn(session, agent_speech, confidence)
        files1 == session_save_transcript(fs, session1, write1)
        ended == should_end_call(session1, agent_speech)
        session2 == [session1 EXCEPT !.goal_achieved = ended.goal_achieved]
        calls2 ==
            IF reg.registered
            THEN (call_sid :> [session2 EXCEPT !.conversation_manager = reg.cm])
            ELSE <<>>
        g == generate_gpt_reply(calls2, call_sid, agent_speech, confidence, llm)
        session3 == count_patient_turn(
                        IF reg.registered /\ reg.same
                        THEN [session2 EXCEPT !.conversation_manager = g.cm]
                        ELSE session2,
                        g.reply)
    IN  IF closing_exit(session1, agent_speech)
        THEN [session |-> session1,
              reg_cm |-> reg.cm,
              files |-> files1,
              response |-> <<>>,
              exit |-> "agent_closing_utterance",
              counted |-> session1.turn_count,
              llm_calls |-> 0]
        ELSE IF ended.result
        THEN [session |-> session2,
              reg_cm |-> reg.cm,
              files |-> files1,
              response |-> goodbye_twiml,
              exit |-> "should_end",
              counted |-> session1.turn_count,
              llm_calls |-> 0]
        ELSE [session |-> session3,
              reg_cm |-> IF reg.registered THEN g.cm ELSE reg.cm,
              files |-> session_save_transcript(files1, session3, write2),
              response |-> reply_twiml(g.reply),
              exit |-> IF Len(g.reply) > 0 THEN "reply" ELSE "empty_reply",
              counted |-> session1.turn_count,
              llm_calls |-> g.llm_calls]

\* what handle_agent_response leaves once it has responded: r.session is the
\* session of call_sid (the handler changed the registered object in place)
responded(calls0, call_sid, r) ==
    [active_calls |-> [calls0 EXCEPT ![call_sid] = r.session],
     files |-> r.files, response |-> r.response, exit |-> r.exit,
     counted |-> r.counted, llm_calls |-> r.llm_calls]

\* the same, with the session removed when the handler ended the call
responded_teardown(calls0, call_sid, r) ==
    [responded(calls0, call_sid, r) EXCEPT
        !.active_calls =
            IF r.exit \in {"agent_closing_utterance", "should_end"}
            THEN [c \in DOMAIN calls0 \ {call_sid} |-> calls0[c]]
            ELSE @]

\* handle_agent_response removing the session when it ends the call
handle_agent_response_teardown(calls, fs, call_sid, agent_speech, confidence_str, llm, write1, write2) ==
    LET calls0 ==
            IF call_sid \notin DOMAIN calls
            THEN (call_sid :> CallSession(call_sid, "appointment_scheduling")) @@ calls
            ELSE calls
    IN  responded_teardown(calls0, call_sid,
                           respond(calls0[call_sid], Registered(calls0[call_sid]), fs,
                                   call_sid, agent_speech, confidence_str, llm,
                                   write1, write2))

\* handle_agent_response with save_transcript letting a failed write out:
\* the handler stops at the first failed write and Flask answers 500
handle_agent_response_write_raises(calls, fs, call_sid, agent_speech, confidence_str, llm, write1, write2) ==
    LET calls0 ==
            IF call_sid \notin DOMAIN calls
            THEN (call_sid :> CallSession(call_sid, "appointment_scheduling")) @@ calls
            ELSE calls
    IN  IF write1 /\ write2
        THEN responded(calls0, call_sid,
                       respond(calls0[call_sid], Registered(calls0[call_sid]), fs,
                               call_sid, agent_speech, confidence_str, llm,
                               write1, write2))
        ELSE [active_calls |->
                  [calls0 EXCEPT ![call_sid] =
                      count_agent_turn(@, agent_speech, parse_confidence(confidence_str))],
              files |-> fs,
              response |-> << [verb |-> "500", arg |-> <<>>] >>,
              exit |-> "error",
              counted |-> calls0[call_sid].turn_count + 1,
              llm_calls |-> 0]

\* handle_agent_response() for one POST, run without interruption: the
\* session is created if call_sid has none, then the handler responds
handle_agent_response(calls, fs, call_sid, agent_speech, confidence_str, llm, write1, write2) ==
    LET calls0 ==
            IF call_sid \notin DOMAIN calls
            THEN (call_sid :> CallSession(call_sid, "appointment_scheduling")) @@ calls
            ELSE calls
    IN  responded(calls0, call_sid,
                  respond(calls0[call_sid], Registered(calls0[call_sid]), fs,
                          call_sid, agent_speech, confidence_str, llm,
                          write1, write2))

\* voice_webhook(): the registry it leaves
voice_webhook(calls, call_sid, scenario_name) ==
    IF call_sid \notin DOMAIN calls
    THEN (call_sid :> CallSession(call_sid, scenario_name)) @@ calls
    ELSE calls

voice_twiml == << Gather(<<"2", "0">>), Pause(<<"1">>), Say(HELLO), Hangup >>

\* int(call_duration) if str(call_duration).isdigit() else 0
duration_seconds(call_duration) ==
    CASE call_duration = "0" -> 0
      [] call_duration = "42" -> 42
      [] OTHER -> 0

\* call_status writing the status CallSession.save_transcript would write
call_status_session_status(calls, fs, call_sid, call_status_val, call_duration, write_ok) ==
    IF call_status_val = "completed" /\ call_sid \in DOMAIN calls
    THEN [active_calls |-> [c \in DOMAIN calls \ {call_sid} |-> calls[c]],
          files |-> session_save_transcript(fs, calls[call_sid], write_ok)]
    ELSE [active_calls |-> calls, files |-> fs]

\* call_status without the test for call_sid in active_calls: a completed
\* signal for a call with no session writes an empty completed snapshot
call_status_unguarded(calls, fs, call_sid, call_status_val, call_duration, write_ok) ==
    IF call_status_val # "completed" THEN [active_calls |-> calls, files |-> fs]
    ELSE
      LET session == IF call_sid \in DOMAIN calls THEN calls[call_sid]
                     ELSE CallSession(call_sid, "appointment_scheduling")
          transcript_data ==
              [scenario_name |-> session.scenario_name,
               transcript |-> session.transcript,
               turn_count |-> session.turn_count,
               status |-> "completed",
               completed_at |-> "now",
               duration_seconds |-> duration_seconds(call_duration)]
      IN  [active_calls |-> [c \in DOMAIN calls \ {call_sid} |-> calls[c]],
           files |-> tm_save_transcript(fs, call_sid, transcript_data, write_ok)]

\* call_status(): the registry and the store it leaves
call_status(calls, fs, call_sid, call_status_val, call_duration, write_ok) ==
    IF call_status_val = "completed" /\ call_sid \in DOMAIN calls
    THEN
      LET session == calls[call_sid]
          base == [scenario_name |-> session.scenario_name,
                   transcript |-> session.transcript,
                   turn_count |-> session.turn_count,
                   status |-> "completed",
                   completed_at |-> "now",
                   duration_seconds |-> duration_seconds(call_duration)]
          transcript_data ==
              IF session.conversation_manager.present
              THEN ("scenario_info" :> get_scenario_info(session.conversation_manager)) @@ base
              ELSE base
      IN  [active_calls |-> [c \in DOMAIN calls \ {call_sid} |-> calls[c]],
           files |-> tm_save_transcript(fs, call_sid, transcript_data, write_ok)]
    ELSE [active_calls |-> calls, files |-> fs]

\* recording_complete(): the store it leaves.  recording says what the
\* download and the Whisper call gave: no audio file, no transcription, or
\* a transcription with its text.
recording_complete(fs, call_sid, recording, write_ok) ==
    IF recording.audio /\ recording.whisper
    THEN enrich_with_whisper(fs, call_sid, [text |-> recording.text], write_ok).files
    ELSE fs

\* make_call(scenario_name): Twilio places the call and names it call_sid,
\* or the call fails (placed = FALSE) and the registry is left alone
make_call(calls, call_sid, scenario_name, placed) ==
    IF placed
    THEN (call_sid :> CallSession(call_sid, scenario_name)) @@ calls
    ELSE calls

----------------------------------------------------------------------------
(* The environment: what Twilio, the clinic's agent and the completion API  *)
(* may send.                                                                *)

U_NEUTRAL ==
    <<"W","h","i","c","h"," ","d","a","y","?">>   \* "Which day?"
U_GREETING ==
    <<"T","h","a","n","k","s"," ","f","o","r"," ","c","a","l","l","i","n","g">>   \* "Thanks for calling"
U_GOODBYE ==
    <<"G","o","o","d","b","y","e">>   \* "Goodbye"
U_THANKS_AGAIN ==
    <<"T","h","a","n","k","s"," ","a","g","a","i","n">>   \* "Thanks again"
U_ALL_SET ==
    <<"Y","o","u","'","r","e"," ","a","l","l"," ","s","e","t">>   \* "You're all set"
U_EMPTY ==
    <<>>   \* ""
U_SET_BYE ==
    <<"A","l","l"," ","s","e","t",","," ","t","a","k","e"," ","c","a","r","e">>   \* "All set, take care"
R_MONDAY ==
    <<"O","n"," ","M","o","n","d","a","y",".">>   \* "On Monday."
R_I_NEED ==
    <<"I"," ","N","e","e","d">>   \* "I Need"
R_OKAY ==
    <<" ","O","k","a","y","."," ">>   \* " Okay. "
R_I_WOULD_LIKE ==
    <<"I"," ","W","o","u","l","d"," ","L","i","k","e">>   \* "I Would Like"

\* bounds of the model: no session is driven past MaxTurnCount turns, and
\* the environment departs from the everyday call at most MaxVaried times
MaxTurnCount == 26
MaxVaried == 1

CallSids == {"CA1"}

Utterances ==
    {U_NEUTRAL, U_GREETING, U_GOODBYE, U_THANKS_AGAIN, U_ALL_SET, U_SET_BYE, U_EMPTY}

ConfidenceStrings == {"1.0", "0.5", "n/a"}

LlmAnswers ==
    {LlmText(R_MONDAY), LlmText(R_I_WOULD_LIKE), LlmText(R_OKAY), LlmNone, LlmRaises}

ScenarioNames == {"appointment_scheduling", "legacy_no_goal", "no_such_scenario"}

CallStatuses == {"completed", "in-progress"}

CallDurations == {"42", "n/a"}

Recordings ==
    {[audio |-> FALSE, whisper |-> FALSE, text |-> <<>>],
     [audio |-> TRUE, whisper |-> TRUE, text |-> U_NEUTRAL]}

\* The everyday call: Twilio posts /voice or the first utterance for a sid
\* it has not used, the agent says U_NEUTRAL with confidence 1.0, the
\* completion API answers R_MONDAY, and the call completes after 42 s.
\* Every other input uses up one unit of `varied`.
Cost(value, everyday) == IF value = everyday THEN 0 ELSE 1

\* a session created for a sid whose transcript file is already there
Reused(call_sid) ==
    IF call_sid \notin DOMAIN active_calls /\ call_sid \in DOMAIN files THEN 1 ELSE 0

\* the completion API was not asked
NoLlm == [kind |-> "unused", content |-> <<>>]

NoEvent ==
    [handler |-> "none", call_sid |-> "", speech |-> <<>>, turn_count |-> 0,
     exit |-> "none", llm_calls |-> 0, llm |-> NoLlm,
     created |-> FALSE, had_session |-> FALSE, arg |-> ""]

NoFunction == [op |-> "none"]

Init ==
    /\ active_calls = [c \in {} |-> <<>>]
    /\ files = [c \in {} |-> <<>>]
    /\ response = <<>>
    /\ ev = NoEvent
    /\ varied = 0
    /\ fin = NoFunction
    /\ fout = NoFunction
    /\ heap = <<>>
    /\ threads = <<>>

Spend(cost) ==
    /\ varied + cost <= MaxVaried
    /\ varied' = varied + cost

HandleAgentResponse(call_sid, agent_speech, confidence_str, llm) ==
    /\ call_sid \in DOMAIN active_calls =>
           active_calls[call_sid].turn_count < MaxTurnCount
    /\ Spend(Cost(agent_speech, U_NEUTRAL) + Cost(confidence_str, "1.0")
                + Cost(llm, LlmText(R_MONDAY)) + Reused(call_sid))
    /\ LET r == handle_agent_response(active_calls, files, call_sid, agent_speech,
                                      confidence_str, llm, TRUE, TRUE)
       IN  /\ active_calls' = r.active_calls
           /\ files' = r.files
           /\ response' = r.response
           /\ ev' = [handler |-> "handle_agent_response", call_sid |-> call_sid,
                     speech |-> agent_speech,
                     turn_count |-> r.counted,
                     exit |-> r.exit, llm_calls |-> r.llm_calls,
                     llm |-> IF r.llm_calls = 0 THEN NoLlm ELSE llm,
                     created |-> call_sid \notin DOMAIN active_calls,
                     had_session |-> call_sid \in DOMAIN active_calls, arg |-> ""]
    /\ UNCHANGED <<fin, fout, heap, threads>>

VoiceWebhook(call_sid, scenario_name) ==
    /\ Spend(IF call_sid \in DOMAIN active_calls THEN 1
             ELSE Cost(scenario_name, "appointment_scheduling") + Reused(call_sid))
    /\ active_calls' = voice_webhook(active_calls, call_sid, scenario_name)
    /\ response' = voice_twiml
    /\ ev' = [NoEvent EXCEPT !.handler = "voice_webhook", !.call_sid = call_sid,
                             !.created = call_sid \notin DOMAIN active_calls,
                             !.had_session = call_sid \in DOMAIN active_calls,
                             !.arg = scenario_name]
    /\ UNCHANGED <<files, fin, fout, heap, threads>>

CallStatus(call_sid, call_status_val, call_duration) ==
    /\ Spend(IF call_status_val = "completed" /\ call_sid \in DOMAIN active_calls
             THEN Cost(call_duration, "42") ELSE 1)
    /\ LET r == call_status(active_calls, files, call_sid, call_status_val,
                            call_duration, TRUE)
       IN  /\ active_calls' = r.active_calls
           /\ files' = r.files
    /\ response' = OkBody
    /\ ev' = [NoEvent EXCEPT !.handler = "call_status", !.call_sid = call_sid,
                             !.had_session = call_sid \in DOMAIN active_calls,
                             !.arg = call_status_val]
    /\ UNCHANGED <<fin, fout, heap, threads>>

RecordingComplete(call_sid, recording) ==
    /\ Spend(1)
    /\ files' = recording_complete(files, call_sid, recording, TRUE)
    /\ response' = OkBody
    /\ ev' = [NoEvent EXCEPT !.handler = "recording_complete", !.call_sid = call_sid,
                             !.had_session = call_sid \in DOMAIN active_calls]
    /\ UNCHANGED <<active_calls, fin, fout, heap, threads>>

\* Twilio names a call it places with a sid it has not used before
MakeCall(call_sid, scenario_name, placed) ==
    /\ call_sid \notin DOMAIN active_calls
    /\ call_sid \notin DOMAIN files
    /\ Spend(IF placed THEN Cost(scenario_name, "appointment_scheduling") ELSE 1)
    /\ active_calls' = make_call(active_calls, call_sid, scenario_name, placed)
    /\ ev' = [NoEvent EXCEPT !.handler = "make_call", !.call_sid = call_sid,
                             !.created = placed, !.arg = scenario_name]
    /\ UNCHANGED <<files, response, fin, fout, heap, threads>>

Next ==
    \/ \E c \in CallSids, t \in Utterances, k \in ConfidenceStrings, l \in LlmAnswers :
          HandleAgentResponse(c, t, k, l)
    \/ \E c \in CallSids, s \in ScenarioNames : VoiceWebhook(c, s)
    \/ \E c \in CallSids, v \in CallStatuses, d \in CallDurations : CallStatus(c, v, d)
    \/ \E c \in CallSids, r \in Recordings : RecordingComplete(c, r)
    \/ \E c \in CallSids, s \in ScenarioNames, ok \in BOOLEAN : MakeCall(c, s, ok)

Spec == Init /\ [][Next]_vars

U_CONFIRMED_BYE ==
    <<"Y","o","u","r"," ","a","p","p","o","i","n","t","m","e","n","t"," ","i","s"," ","c","o","n","f","i","r","m","e","d","."," ","G","o","o","d","b","y","e">>   \* "Your appointment is confirmed. Goodbye"

----------------------------------------------------------------------------
(* should_end_call applied on its own to a session in any state *)

ShouldEndTexts ==
    {U_NEUTRAL, U_GREETING, U_GOODBYE, U_THANKS_AGAIN, U_ALL_SET, U_EMPTY,
     U_SET_BYE, U_CONFIRMED_BYE}

InitShouldEnd ==
    /\ active_calls = [c \in {} |-> <<>>]
    /\ files = [c \in {} |-> <<>>]
    /\ response = <<>>
    /\ ev = NoEvent
    /\ varied = 0
    /\ fin \in [op : {"should_end_call"}, turn_count : 0..MaxTurnCount,
                goal_achieved : BOOLEAN, agent_text : ShouldEndTexts]
    /\ fout = NoFunction
    /\ heap = <<>>
    /\ threads = <<>>

ApplyShouldEnd ==
    /\ fin.op = "should_end_call"
    /\ fout = NoFunction
    /\ LET r == should_end_call([turn_count |-> fin.turn_count,
                                 goal_achieved |-> fin.goal_achieved],
                                fin.agent_text)
       IN  fout' = [op |-> "should_end_call", result |-> r.result,
                    goal_achieved |-> r.goal_achieved]
    /\ UNCHANGED <<active_calls, files, response, ev, varied, fin, heap, threads>>

SpecShouldEnd == InitShouldEnd /\ [][ApplyShouldEnd]_vars

----------------------------------------------------------------------------
(* generate_reply applied on its own: any scenario, utterance, history and  *)
(* answer of the completion API; it is run a second time on the same input  *)
(* with another history                                                     *)

\* speaking: "Am I speaking with Sam?"; dob: "Date of birth?"; name_dob:
\* "Your name and date of birth?"; verify: "Let me verify your identity";
\* confirm_dob: "Confirm your information: DOB?"; offer: "Anything else I
\* can help with?"; offer_booked: "Booked. Is there anything else?";
\* offer_who: "Who is this? Is there anything else?"
AgentLines ==
    [ speaking |->
        <<"A","m"," ","I"," ","s","p","e","a","k","i","n","g"," ","w","i","t","h"," ","S","a","m","?">>,
     dob |->
        <<"D","a","t","e"," ","o","f"," ","b","i","r","t","h","?">>,
     name_dob |->
        <<"Y","o","u","r"," ","n","a","m","e"," ","a","n","d"," ","d","a","t","e"," ","o","f"," ","b","i","r","t","h","?">>,
     verify |->
        <<"L","e","t"," ","m","e"," ","v","e","r","i","f","y"," ","y","o","u","r"," ","i","d","e","n","t","i","t","y">>,
     confirm_dob |->
        <<"C","o","n","f","i","r","m"," ","y","o","u","r"," ","i","n","f","o","r","m","a","t","i","o","n",":"," ","D","O","B","?">>,
     offer |->
        <<"A","n","y","t","h","i","n","g"," ","e","l","s","e"," ","I"," ","c","a","n"," ","h","e","l","p"," ","w","i","t","h","?">>,
     offer_booked |->
        <<"B","o","o","k","e","d","."," ","I","s"," ","t","h","e","r","e"," ","a","n","y","t","h","i","n","g"," ","e","l","s","e","?">>,
     offer_who |->
        <<"W","h","o"," ","i","s"," ","t","h","i","s","?"," ","I","s"," ","t","h","e","r","e"," ","a","n","y","t","h","i","n","g"," ","e","l","s","e","?">>]

\* scheduled: "Agent: You are Scheduled"; great: "Great, thanks.";
\* cancelled: "Agent: It is cancelled"; which_day: "Agent: Which day?"
HistoryLines ==
    [ scheduled |->
        <<"A","g","e","n","t",":"," ","Y","o","u"," ","a","r","e"," ","S","c","h","e","d","u","l","e","d">>,
     great |->
        <<"G","r","e","a","t",","," ","t","h","a","n","k","s",".">>,
     cancelled |->
        <<"A","g","e","n","t",":"," ","I","t"," ","i","s"," ","c","a","n","c","e","l","l","e","d">>,
     which_day |->
        <<"A","g","e","n","t",":"," ","W","h","i","c","h"," ","d","a","y","?">>]

Exchange(agent_line, patient_line) ==
    << [role |-> "user", content |-> agent_line],
       [role |-> "assistant", content |-> patient_line] >>

ReplyTexts ==
    {AgentLines[k] : k \in DOMAIN AgentLines} \cup {U_NEUTRAL}

ReplyHistories ==
    {<<>>,
     Exchange(HistoryLines.scheduled, HistoryLines.great),
     Exchange(HistoryLines.cancelled, HistoryLines.great),
     Exchange(HistoryLines.which_day, R_MONDAY)}

ReplyScenarios ==
    {"appointment_scheduling", "reschedule", "cancel_1970", "billing"}

InitGenerateReply ==
    /\ active_calls = <<>>
    /\ files = <<>>
    /\ response = <<>>
    /\ ev = NoEvent
    /\ varied = 0
    /\ fin \in [op : {"generate_reply"}, scenario : ReplyScenarios,
                agent_text : ReplyTexts, confidence : {100, 50},
                history : ReplyHistories, other_history : ReplyHistories,
                llm : {LlmText(R_MONDAY), LlmRaises}]
    /\ fout = NoFunction
    /\ heap = <<>>
    /\ threads = <<>>

ApplyGenerateReply ==
    /\ fin.op = "generate_reply"
    /\ fout = NoFunction
    /\ LET scenario == get_scenario_by_name(fin.scenario).scenario
           cm(h) == [ConversationManager(scenario) EXCEPT
                        !.conversation_history = h, !.turn_count = Len(h) \div 2]
           r == generate_reply(cm(fin.history), fin.agent_text, fin.confidence, fin.llm)
           other == generate_reply(cm(fin.other_history), fin.agent_text,
                                   fin.confidence, fin.llm)
       IN  fout' = [op |-> "generate_reply", raised |-> r.raised, reply |-> r.reply,
                    llm_calls |-> r.llm_calls,
                    history |-> r.cm.conversation_history,
                    other_raised |-> other.raised, other_reply |-> other.reply]
    /\ UNCHANGED <<active_calls, files, response, ev, varied, fin, heap, threads>>

SpecGenerateReply == InitGenerateReply /\ [][ApplyGenerateReply]_vars

----------------------------------------------------------------------------
(* _is_goal_completed applied on its own to a goal and a conversation text  *)

G_CANCEL_APPOINTMENT ==
    <<"C","a","n","c","e","l"," ","m","y"," ","a","p","p","o","i","n","t","m","e","n","t">>   \* "Cancel my appointment"
\* booked: "It is Booked"; moved: "Moved to a new time"; pharmacy: "Sent to
\* the pharmacy"; canceled: "Your visit is canceled"; rescheduled:
\* "Rescheduled"; see_you: "See you on Monday"; removed: "Removed from the
\* list"
ConversationLines ==
    [ booked |->
        <<"I","t"," ","i","s"," ","B","o","o","k","e","d">>,
     moved |->
        <<"M","o","v","e","d"," ","t","o"," ","a"," ","n","e","w"," ","t","i","m","e">>,
     pharmacy |->
        <<"S","e","n","t"," ","t","o"," ","t","h","e"," ","p","h","a","r","m","a","c","y">>,
     canceled |->
        <<"Y","o","u","r"," ","v","i","s","i","t"," ","i","s"," ","c","a","n","c","e","l","e","d">>,
     rescheduled |->
        <<"R","e","s","c","h","e","d","u","l","e","d">>,
     see_you |->
        <<"S","e","e"," ","y","o","u"," ","o","n"," ","M","o","n","d","a","y">>,
     removed |->
        <<"R","e","m","o","v","e","d"," ","f","r","o","m"," ","t","h","e"," ","l","i","s","t">>]

GoalTexts ==
    {GOAL_APPOINTMENT, GOAL_REFILL, GOAL_RESCHEDULE, GOAL_CANCEL, GOAL_OTHER,
     G_CANCEL_APPOINTMENT, <<>>}

ConversationTexts ==
    {ConversationLines[k] : k \in DOMAIN ConversationLines}
        \cup {U_NEUTRAL, U_ALL_SET, <<>>}

InitGoalCompleted ==
    /\ active_calls = <<>>
    /\ files = <<>>
    /\ response = <<>>
    /\ ev = NoEvent
    /\ varied = 0
    /\ fin \in [op : {"is_goal_completed"}, goal : GoalTexts,
                conversation_text : ConversationTexts]
    /\ fout = NoFunction
    /\ heap = <<>>
    /\ threads = <<>>

ApplyGoalCompleted ==
    /\ fin.op = "is_goal_completed"
    /\ fout = NoFunction
    /\ fout' = [op |-> "is_goal_completed",
                result |-> is_goal_completed(
                               Scenario("any", [name |-> NAME_LUCAS, goal |-> fin.goal]),
                               fin.conversation_text)]
    /\ UNCHANGED <<active_calls, files, response, ev, varied, fin, heap, threads>>

SpecGoalCompleted == InitGoalCompleted /\ [][ApplyGoalCompleted]_vars

----------------------------------------------------------------------------
(* The handlers as the threads of Flask's development server run them       *)
(* (app.run, threaded by default): a request is served by one thread, and   *)
(* threads are switched between any two accesses to active_calls.  Here     *)
(* active_calls maps a call_sid to a reference into heap, where the         *)
(* CallSession objects live, and a thread keeps the reference it looked up. *)

\* bound of the model: how many requests and calls are started in all
MaxRequests == 3

Threads == {"t1", "t2"}

Idle ==
    [handler |-> "none", pc |-> "idle", call_sid |-> "", arg |-> "",
     speech |-> <<>>, session |-> 0]

\* Flask's answer to a request whose handler raised
InternalServerError == << [verb |-> "500", arg |-> <<>>] >>

\* what has been started so far (observation only)
ThreadsEvent(begun, placed, requests) ==
    [handler |-> "threads", begun |-> begun, placed |-> placed,
     requests |-> requests]

InitThreads ==
    /\ active_calls = <<>>
    /\ files = <<>>
    /\ response = <<>>
    /\ ev = ThreadsEvent({}, {}, 0)
    /\ varied = 0
    /\ fin = NoFunction
    /\ fout = NoFunction
    /\ heap = <<>>
    /\ threads = [t \in Threads |-> Idle]

At(t, pc) == threads[t].pc = pc

Goto(t, pc) == threads' = [threads EXCEPT ![t].pc = pc]

\* the handler returns body and the thread is free again
Return(t, body) ==
    /\ threads' = [threads EXCEPT ![t] = Idle]
    /\ response' = body

\* active_calls[call_sid] = CallSession(call_sid, scenario_name)
Assign(call_sid, scenario_name) ==
    /\ heap' = Append(heap, CallSession(call_sid, scenario_name))
    /\ active_calls' = (call_sid :> Len(heap) + 1) @@ active_calls

\* a request arrives, or make_call has placed its call, and a free thread
\* takes it up; Twilio gives every call it places a call_sid of its own
BeginRequest(t, handler, call_sid, arg, speech) ==
    /\ At(t, "idle")
    /\ ev.requests < MaxRequests
    /\ handler = "make_call" => call_sid \notin ev.placed
    /\ ev' = ThreadsEvent(ev.begun \cup {handler},
                          IF handler = "make_call"
                          THEN ev.placed \cup {call_sid} ELSE ev.placed,
                          ev.requests + 1)
    /\ threads' = [threads EXCEPT ![t] =
                      [Idle EXCEPT !.handler = handler, !.pc = handler,
                                   !.call_sid = call_sid, !.arg = arg,
                                   !.speech = speech]]
    /\ UNCHANGED <<active_calls, files, response, varied, fin, fout, heap>>

\* voice_webhook: `if call_sid not in active_calls`
VoiceWebhookCheck(t) ==
    /\ At(t, "voice_webhook")
    /\ IF threads[t].call_sid \notin DOMAIN active_calls
       THEN Goto(t, "voice_webhook_create") /\ UNCHANGED response
       ELSE Return(t, voice_twiml)
    /\ UNCHANGED <<active_calls, files, ev, varied, fin, fout, heap>>

\* voice_webhook: the session is made and registered, the TwiML returned
VoiceWebhookCreate(t) ==
    /\ At(t, "voice_webhook_create")
    /\ Assign(threads[t].call_sid, threads[t].arg)
    /\ Return(t, voice_twiml)
    /\ UNCHANGED <<files, ev, varied, fin, fout>>

\* handle_agent_response: `if call_sid not in active_calls`
HandlerCheck(t) ==
    /\ At(t, "handle_agent_response")
    /\ IF threads[t].call_sid \notin DOMAIN active_calls
       THEN Goto(t, "handler_create")
       ELSE Goto(t, "handler_lookup")
    /\ UNCHANGED <<active_calls, files, response, ev, varied, fin, fout, heap>>

\* handle_agent_response: the session is made and registered
HandlerCreate(t) ==
    /\ At(t, "handler_create")
    /\ Assign(threads[t].call_sid, "appointment_scheduling")
    /\ Goto(t, "handler_lookup")
    /\ UNCHANGED <<files, response, ev, varied, fin, fout>>

\* handle_agent_response: `session = active_calls[call_sid]`, a KeyError
\* when the call_sid is not there any more
HandlerLookup(t) ==
    /\ At(t, "handler_lookup")
    /\ IF threads[t].call_sid \in DOMAIN active_calls
       THEN /\ threads' = [threads EXCEPT
                              ![t].session = active_calls[threads[t].call_sid],
                              ![t].pc = "handler_respond"]
            /\ UNCHANGED response
       ELSE Return(t, InternalServerError)
    /\ UNCHANGED <<active_calls, files, ev, varied, fin, fout, heap>>

\* handle_agent_response from "Save agent turn" on, with the session the
\* thread holds; generate_gpt_reply takes the conversation manager of the
\* session registered by then
HandlerRespond(t) ==
    /\ At(t, "handler_respond")
    /\ LET call_sid == threads[t].call_sid
           own == threads[t].session
           registered == call_sid \in DOMAIN active_calls
           reg == IF registered
                  THEN [registered |-> TRUE, same |-> active_calls[call_sid] = own,
                        cm |-> heap[active_calls[call_sid]].conversation_manager]
                  ELSE Unregistered
           r == respond(heap[own], reg, files, call_sid, threads[t].speech,
                        "1.0", LlmText(R_MONDAY), TRUE, TRUE)
           heap1 == [heap EXCEPT ![own] = r.session]
       IN  /\ heap' = IF registered /\ ~reg.same
                      THEN [heap1 EXCEPT
                              ![active_calls[call_sid]].conversation_manager = r.reg_cm]
                      ELSE heap1
           /\ files' = r.files
           /\ Return(t, r.response)
    /\ UNCHANGED <<active_calls, ev, varied, fin, fout>>

\* call_status: `if call_status_val == "completed" and call_sid in active_calls`
CallStatusCheck(t) ==
    /\ At(t, "call_status")
    /\ IF threads[t].arg = "completed" /\ threads[t].call_sid \in DOMAIN active_calls
       THEN Goto(t, "call_status_lookup") /\ UNCHANGED response
       ELSE Return(t, OkBody)
    /\ UNCHANGED <<active_calls, files, ev, varied, fin, fout, heap>>

\* call_status: `session = active_calls[call_sid]`
CallStatusLookup(t) ==
    /\ At(t, "call_status_lookup")
    /\ IF threads[t].call_sid \in DOMAIN active_calls
       THEN /\ threads' = [threads EXCEPT
                              ![t].session = active_calls[threads[t].call_sid],
                              ![t].pc = "call_status_save"]
            /\ UNCHANGED response
       ELSE Return(t, InternalServerError)
    /\ UNCHANGED <<active_calls, files, ev, varied, fin, fout, heap>>

\* call_status: the completed snapshot is built from the session and saved
CallStatusSave(t) ==
    /\ At(t, "call_status_save")
    /\ files' = call_status((threads[t].call_sid :> heap[threads[t].session]), files,
                            threads[t].call_sid, "completed", "42", TRUE).files
    /\ Goto(t, "call_status_delete")
    /\ UNCHANGED <<active_calls, response, ev, varied, fin, fout, heap>>

\* call_status: `del active_calls[call_sid]`, a KeyError when the call_sid
\* is not there any more
CallStatusDelete(t) ==
    /\ At(t, "call_status_delete")
    /\ IF threads[t].call_sid \in DOMAIN active_calls
       THEN /\ active_calls' = [c \in DOMAIN active_calls \ {threads[t].call_sid} |->
                                   active_calls[c]]
            /\ Return(t, OkBody)
       ELSE /\ UNCHANGED active_calls
            /\ Return(t, InternalServerError)
    /\ UNCHANGED <<files, ev, varied, fin, fout, heap>>

\* make_call: `active_calls[call.sid] = CallSession(call.sid, scenario_name)`
\* once Twilio has placed the call
MakeCallAssign(t) ==
    /\ At(t, "make_call")
    /\ Assign(threads[t].call_sid, threads[t].arg)
    /\ threads' = [threads EXCEPT ![t] = Idle]
    /\ UNCHANGED <<files, response, ev, varied, fin, fout>>

NextThreads ==
    \/ \E t \in Threads, c \in CallSids :
          \/ BeginRequest(t, "voice_webhook", c, "appointment_scheduling", <<>>)
          \/ BeginRequest(t, "make_call", c, "appointment_scheduling", <<>>)
          \/ \E v \in CallStatuses : BeginRequest(t, "call_status", c, v, <<>>)
          \/ \E a \in {U_NEUTRAL, U_GOODBYE} :
                BeginRequest(t, "handle_agent_response", c, "", a)
    \/ \E t \in Threads : VoiceWebhookCheck(t)
    \/ \E t \in Threads : VoiceWebhookCreate(t)
    \/ \E t \in Threads : HandlerCheck(t)
    \/ \E t \in Threads : HandlerCreate(t)
    \/ \E t \in Threads : HandlerLookup(t)
    \/ \E t \in Threads : HandlerRespond(t)
    \/ \E t \in Threads : CallStatusCheck(t)
    \/ \E t \in Threads : CallStatusLookup(t)
    \/ \E t \in Threads : CallStatusSave(t)
    \/ \E t \in Threads : CallStatusDelete(t)
    \/ \E t \in Threads : MakeCallAssign(t)

SpecThreads == InitThreads /\ [][NextThreads]_vars

----------------------------------------------------------------------------
(* Two calls side by side, sessions whose scenario does not load, and a     *)
(* transcript store whose writes may fail.  The handlers run one at a time. *)

\* "Your birthday and phone number?", "Name and callback number?",
\* "Your NAME please"
FallbackLines ==
    [birthday_phone |->
        <<"Y","o","u","r"," ","b","i","r","t","h","d","a","y"," ","a","n","d"," ","p","h","o","n","e"," ","n","u","m","b","e","r","?">>,
     name_callback |->
        <<"N","a","m","e"," ","a","n","d"," ","c","a","l","l","b","a","c","k"," ","n","u","m","b","e","r","?">>,
     name_upper |->
        <<"Y","o","u","r"," ","N","A","M","E"," ","p","l","e","a","s","e">>]

\* bounds of the model: no session is driven past MaxSessionTurns turns, and
\* the environment departs from the everyday call (see Cost) at most
\* MaxDeviations times
MaxSessionTurns == 2
MaxDeviations == 1

SessionSids == {"CA1", "CA2"}

Deviate(cost) ==
    /\ varied + cost <= MaxDeviations
    /\ varied' = varied + cost

\* POST /voice for a call that has no session; a scenario that does not
\* load is as everyday here as one that does
SessionVoice(call_sid, scenario_name) ==
    /\ call_sid \notin DOMAIN active_calls
    /\ Deviate(0)
    /\ active_calls' = voice_webhook(active_calls, call_sid, scenario_name)
    /\ response' = voice_twiml
    /\ ev' = [NoEvent EXCEPT !.handler = "voice_webhook", !.call_sid = call_sid,
                             !.created = TRUE, !.arg = scenario_name]
    /\ UNCHANGED <<files, fin, fout, heap, threads>>

\* POST /handle-agent-response, the completion API answering as every day;
\* ideal is what the handler would have left
\* and answered had both transcript writes succeeded
SessionUtterance(call_sid, agent_speech, write1, write2) ==
    /\ call_sid \in DOMAIN active_calls
    /\ active_calls[call_sid].turn_count < MaxSessionTurns
    /\ Deviate(Cost(agent_speech, U_NEUTRAL) + Cost(write1, TRUE) + Cost(write2, TRUE))
    /\ \E r \in {handle_agent_response(active_calls, files, call_sid, agent_speech,
                                        "1.0", LlmText(R_MONDAY), write1, write2)},
          ideal \in {handle_agent_response(active_calls, files, call_sid, agent_speech,
                                            "1.0", LlmText(R_MONDAY), TRUE, TRUE)} :
          /\ active_calls' = r.active_calls
          /\ files' = r.files
          /\ response' = r.response
          /\ ev' = [handler |-> "handle_agent_response", call_sid |-> call_sid,
                    speech |-> agent_speech, turn_count |-> r.counted,
                    exit |-> r.exit, llm_calls |-> r.llm_calls,
                    llm |-> IF r.llm_calls = 0 THEN NoLlm ELSE LlmText(R_MONDAY),
                    created |-> FALSE, had_session |-> TRUE, arg |-> "",
                    writes_ok |-> write1 /\ write2,
                    ideal |-> [active_calls |-> ideal.active_calls,
                               response |-> ideal.response]]
    /\ UNCHANGED <<fin, fout, heap, threads>>

\* POST /call-status for a call that has a session
SessionStatus(call_sid, call_status_val, write_ok) ==
    /\ call_sid \in DOMAIN active_calls
    /\ Deviate(Cost(call_status_val, "completed") + Cost(write_ok, TRUE))
    /\ \E r \in {call_status(active_calls, files, call_sid, call_status_val,
                             "42", write_ok)},
          ideal \in {call_status(active_calls, files, call_sid, call_status_val,
                                 "42", TRUE)} :
          /\ active_calls' = r.active_calls
          /\ files' = r.files
          /\ ev' = [NoEvent EXCEPT !.handler = "call_status", !.call_sid = call_sid,
                                   !.had_session = call_sid \in DOMAIN active_calls,
                                   !.arg = call_status_val]
                   @@ [writes_ok |-> write_ok,
                       ideal |-> [active_calls |-> ideal.active_calls,
                                  response |-> OkBody]]
    /\ response' = OkBody
    /\ UNCHANGED <<fin, fout, heap, threads>>

\* POST /recording-complete with a recording Whisper transcribes
SessionRecording(call_sid, write_ok) ==
    /\ call_sid \in DOMAIN files
    /\ "whisper_transcription" \notin DOMAIN files[call_sid]
    /\ Deviate(1)
    /\ files' = recording_complete(files, call_sid,
                                   [audio |-> TRUE, whisper |-> TRUE, text |-> U_NEUTRAL],
                                   write_ok)
    /\ response' = OkBody
    /\ ev' = [NoEvent EXCEPT !.handler = "recording_complete", !.call_sid = call_sid,
                             !.had_session = call_sid \in DOMAIN active_calls]
             @@ [writes_ok |-> write_ok,
                 ideal |-> [active_calls |-> active_calls, response |-> OkBody]]
    /\ UNCHANGED <<active_calls, fin, fout, heap, threads>>

NextSessions ==
    \/ \E c \in SessionSids, s \in {"appointment_scheduling", "no_such_scenario"} :
          SessionVoice(c, s)
    \/ \E c \in SessionSids,
          t \in {U_NEUTRAL} \cup {FallbackLines[k] : k \in DOMAIN FallbackLines},
          w1 \in BOOLEAN, w2 \in BOOLEAN :
          SessionUtterance(c, t, w1, w2)
    \/ \E c \in SessionSids, v \in CallStatuses, w \in BOOLEAN : SessionStatus(c, v, w)
    \/ \E c \in SessionSids, w \in BOOLEAN : SessionRecording(c, w)

SpecSessions == Init /\ [][NextSessions]_vars

----------------------------------------------------------------------------
(* TranscriptManager.save_transcript followed by load_transcript, over      *)
(* snapshots and stores.                                                    *)

\* transcript_data as CallSession.save_transcript and call_status build it,
\* with no turn, one turn and two turns, and one that names no status
Snapshots ==
    LET turns ==
            {<<>>,
             << [speaker |-> "agent", text |-> U_NEUTRAL, turn |-> 0,
                 confidence |-> 100] >>,
             << [speaker |-> "agent", text |-> U_NEUTRAL, turn |-> 0,
                 confidence |-> 50],
                [speaker |-> "patient", text |-> R_MONDAY, turn |-> 1] >>}
    IN  {[scenario_name |-> "appointment_scheduling", transcript |-> t,
          turn_count |-> Len(t), status |-> st] :
            t \in turns, st \in {"in_progress", "completed"}}
        \cup {[scenario_name |-> "appointment_scheduling", transcript |-> t,
               turn_count |-> Len(t)] : t \in turns}

\* the store before the save: empty, holding an older snapshot of the call
\* with a Whisper transcription, holding another call's snapshot
StoresBefore(call_sid) ==
    {<<>>,
     (call_sid :> [call_sid |-> call_sid, status |-> "completed",
                   transcript |-> << [speaker |-> "agent", text |-> U_GOODBYE,
                                      turn |-> 0, confidence |-> 100] >>,
                   turn_count |-> 1,
                   whisper_transcription |-> [full_text |-> U_GOODBYE]]),
     ("CA9" :> [call_sid |-> "CA9", status |-> "in_progress",
                transcript |-> <<>>, turn_count |-> 0])}

InitTranscriptStore ==
    /\ active_calls = <<>>
    /\ response = <<>>
    /\ ev = NoEvent
    /\ varied = 0
    /\ \E call_sid \in SessionSids :
          /\ files \in StoresBefore(call_sid)
          /\ fin \in [op : {"save_load"}, call_sid : {call_sid},
                      transcript_data : Snapshots, write_ok : BOOLEAN]
    /\ fout = NoFunction
    /\ heap = <<>>
    /\ threads = <<>>

\* save_transcript(call_sid, transcript_data), then load_transcript(call_sid)
ApplyTranscriptStore ==
    /\ fin.op = "save_load"
    /\ fout = NoFunction
    /\ files' = tm_save_transcript(files, fin.call_sid, fin.transcript_data,
                                   fin.write_ok)
    /\ fout' = [op |-> "save_load", saved |-> fin.write_ok,
                loaded |-> load_transcript(files', fin.call_sid)]
    /\ UNCHANGED <<active_calls, response, ev, varied, fin, heap, threads>>

SpecTranscriptStore == InitTranscriptStore /\ [][ApplyTranscriptStore]_vars

----------------------------------------------------------------------------
(* Properties *)

Handled == ev.handler = "handle_agent_response"

\* the session the last handle_agent_response worked on
Session == active_calls[ev.call_sid]

ClosingExit == ev.exit = "agent_closing_utterance"
ShouldEndExit == ev.exit = "should_end"

HasVerb(twiml, verb) == \E i \in 1..Len(twiml) : twiml[i].verb = verb

\* a spoken patient reply followed by a listen directive, and no hang-up
RepliesAndListens ==
    /\ Len(response) = 3
    /\ response[2].verb = "Say" /\ Len(response[2].arg) > 0
    /\ response[3].verb = "Gather"
    /\ ~HasVerb(response, "Hangup")

\* C1: while turn_count, the agent's utterance counted, is below
\* MIN_TURNS_BEFORE_CLOSE, handle_agent_response signals no termination
\* whatever the text: it takes neither the closing-utterance exit nor the
\* should-end exit, and answers with a patient reply and a listen directive.
C1_NoTerminationBeforeMinTurns ==
    (Handled /\ ev.turn_count < MIN_TURNS_BEFORE_CLOSE) =>
        /\ ~ClosingExit
        /\ ~ShouldEndExit
        /\ ev.exit = "reply"
        /\ RepliesAndListens

\* C1's case: a sign-off phrase (also an end phrase) in the opening turn
C1_Witness ==
    /\ Handled
    /\ ev.turn_count < MIN_TURNS_BEFORE_CLOSE
    /\ any_in(CLOSING_PHRASES, str_lower(ev.speech))
    /\ any_in(end_phrases, str_lower(ev.speech))
    /\ RepliesAndListens

\* C2: once turn_count, the agent's utterance counted, is at least 25, the
\* evaluation of the utterance ends the call and the reply generator is not
\* invoked, whatever goal_achieved and the text are.
C2_SafetyCapUnconditional ==
    (Handled /\ ev.turn_count >= 25) =>
        /\ ClosingExit \/ ShouldEndExit
        /\ ev.llm_calls = 0
        /\ ~HasVerb(response, "Gather")
        /\ Session.transcript[Len(Session.transcript)].speaker = "agent"

\* C2's case: the cap ends a call whose goal is not achieved, on a text with
\* no end phrase in it
C2_Witness ==
    /\ Handled
    /\ ev.turn_count >= 25
    /\ ~Session.goal_achieved
    /\ ~any_in(CLOSING_PHRASES, str_lower(ev.speech))
    /\ ShouldEndExit

\* C3 as stated: with 24 prior turns and no goal indicator so
\* far, "goodbye" ends the call only if goal_achieved is set; with
\* goal_achieved false a patient reply is produced.
C3_Original ==
    (/\ Handled
     /\ ev.turn_count = 25
     /\ ev.speech = U_GOODBYE
     /\ ~Session.goal_achieved) =>
        ev.exit = "reply"

\* C3, amended: with 24 prior turns "goodbye" always ends the turn through
\* the closing-utterance exit, with nothing said and no reply generated,
\* whether or not goal_achieved is set.
C3_GoodbyeAfter24TurnsCloses ==
    (Handled /\ ev.turn_count = 25 /\ ev.speech = U_GOODBYE) =>
        /\ ClosingExit
        /\ response = <<>>
        /\ ev.llm_calls = 0

\* C3's case: "goodbye" as the 25th turn of a call whose goal is not achieved
C3_Witness ==
    /\ Handled
    /\ ev.turn_count = 25
    /\ ev.speech = U_GOODBYE
    /\ ~Session.goal_achieved
    /\ ClosingExit

\* C4 as stated: once a call's termination is decided no later
\* agent utterance for it is answered with a patient reply, and once its
\* session is removed no later event makes a session for it again.
C4_NoReturnToActive ==
    [][/\ (Handled /\ (ClosingExit \/ ShouldEndExit)) =>
             ~(/\ ev'.handler = "handle_agent_response"
               /\ ev'.call_sid = ev.call_sid
               /\ ev'.exit = "reply")
       /\ (/\ ev.handler = "call_status"
           /\ ev.arg = "completed"
           /\ ev.call_sid \in DOMAIN files
           /\ ev.call_sid \notin DOMAIN active_calls) =>
             ev.call_sid \notin DOMAIN active_calls']_vars

\* C5: goal_achieved is monotonic over a session's lifetime.
C5_GoalAchievedMonotonic ==
    [][\A c \in DOMAIN active_calls \cap DOMAIN active_calls' :
          active_calls[c].goal_achieved => active_calls'[c].goal_achieved]_vars

\* C5's case: the flag, set earlier, has stayed set through an utterance
\* with no goal indicator in it
C5_Witness ==
    /\ Handled
    /\ Session.goal_achieved
    /\ ~any_in(goal_indicators, str_lower(ev.speech))
    /\ ev.turn_count >= MIN_TURNS_BEFORE_CLOSE

IsPrefix(s, t) == Len(s) <= Len(t) /\ SubSeq(t, 1, Len(s)) = s

\* C6: turn_count never decreases; it goes up by one with each turn appended
\* to the transcript, an agent's or a patient's, and at no other time.
C6_TurnCountPerTurn ==
    [][/\ \A c \in DOMAIN active_calls \cap DOMAIN active_calls' :
             LET old == active_calls[c]
                 new == active_calls'[c]
                 agent_turn == /\ ev'.handler = "handle_agent_response"
                               /\ ev'.call_sid = c
                 patient_turn == agent_turn /\ ev'.exit \in {"reply", "empty_reply"}
             IN  /\ new.turn_count >= old.turn_count
                 /\ IsPrefix(old.transcript, new.transcript)
                 /\ new.turn_count - old.turn_count
                        = Len(new.transcript) - Len(old.transcript)
                 /\ new.turn_count - old.turn_count
                        = (IF agent_turn THEN 1 ELSE 0) + (IF patient_turn THEN 1 ELSE 0)
       /\ \A c \in DOMAIN active_calls' \ DOMAIN active_calls :
             active_calls'[c].turn_count = Len(active_calls'[c].transcript)]_vars

\* C6's case: one event that appended an agent turn and a patient turn
C6_Witness ==
    /\ Handled
    /\ ev.exit = "reply"
    /\ ~ev.created
    /\ Session.turn_count = ev.turn_count + 1
    /\ Session.transcript[Len(Session.transcript)].speaker = "patient"
    /\ Session.transcript[Len(Session.transcript) - 1].speaker = "agent"

\* C7: should_end_call agrees with the reference formula on every input:
\* below 3 turns it returns false; from 3 turns on it first sets goal_achieved
\* if the text holds a goal indicator, then returns true iff (the text holds
\* an end phrase and (goal_achieved or turn_count >= 20)) or turn_count >= 25.
C7_ShouldEndReference ==
    fout.op = "should_end_call" =>
        LET lowered == str_lower(fin.agent_text)
            indicator == \E k \in 1..Len(goal_indicators) : str_in(goal_indicators[k], lowered)
            end_phrase == \E k \in 1..Len(end_phrases) : str_in(end_phrases[k], lowered)
            goal == IF fin.turn_count < 3 THEN fin.goal_achieved
                    ELSE fin.goal_achieved \/ indicator
        IN  /\ fout.goal_achieved = goal
            /\ fout.result =
                  (/\ fin.turn_count >= 3
                   /\ \/ end_phrase /\ (goal \/ fin.turn_count >= 20)
                      \/ fin.turn_count >= 25)

\* C7's case: an end phrase ends the call on the turn budget alone
C7_Witness ==
    /\ fout.op = "should_end_call"
    /\ fout.result
    /\ ~fout.goal_achieved
    /\ fin.turn_count = 20

LastTurn == Session.transcript[Len(Session.transcript)]

\* C8: an agent utterance that arrives with turn_count (the utterance
\* counted) at least 3 and holds a sign-off phrase ends the turn with no
\* further patient speech: no reply generation, no completion call, no
\* patient turn in the transcript, nothing said and no listen directive.
C8_ClosingUtteranceSilences ==
    (/\ Handled
     /\ ev.turn_count >= 3
     /\ \E k \in 1..Len(CLOSING_PHRASES) : str_in(CLOSING_PHRASES[k], str_lower(ev.speech))) =>
        /\ ClosingExit
        /\ ev.llm_calls = 0
        /\ ~HasVerb(response, "Say")
        /\ ~HasVerb(response, "Gather")
        /\ Session.turn_count = ev.turn_count
        /\ LastTurn.speaker = "agent"
        /\ LastTurn.text = ev.speech

\* C8's case: a sign-off phrase that is no end phrase of should_end_call
C8_Witness ==
    /\ Handled
    /\ ev.turn_count >= 3
    /\ ev.speech = U_THANKS_AGAIN
    /\ ~any_in(end_phrases, str_lower(ev.speech))
    /\ response = <<>>

\* C9, for a termination that the should-end evaluation decides (the sign-off
\* exit of C8 says nothing by its own rule): the fixed closing line is spoken,
\* it is appended to the transcript as the final patient turn, and the
\* hang-up directive is issued.
C9_EndingSaysAndRecordsGoodbye ==
    (Handled /\ ShouldEndExit) =>
        /\ \E i \in 1..Len(response) : response[i] = Say(THANK_YOU_GOODBYE)
        /\ HasVerb(response, "Hangup")
        /\ LastTurn.speaker = "patient"
        /\ LastTurn.text = THANK_YOU_GOODBYE

\* C10: the call-completed signal for a call id that has a session leaves
\* the persisted snapshot with status completed and the session's transcript
\* and turn_count, and the registry without the call id, whatever the
\* session's turn_count and goal_achieved are.
C10_CompletedFinalizesAndRemoves ==
    [][\A c \in DOMAIN active_calls :
          (/\ ev'.handler = "call_status"
           /\ ev'.arg = "completed"
           /\ ev'.call_sid = c) =>
             /\ c \notin DOMAIN active_calls'
             /\ c \in DOMAIN files'
             /\ files'[c].status = "completed"
             /\ files'[c].transcript = active_calls[c].transcript
             /\ files'[c].turn_count = active_calls[c].turn_count
             /\ files'[c].call_sid = c]_vars

\* C10's case: a call completed mid-conversation, before the turn cap and
\* with turns in its transcript
C10_Witness ==
    /\ ev.handler = "call_status"
    /\ ev.arg = "completed"
    /\ ev.call_sid \notin DOMAIN active_calls
    /\ ev.call_sid \in DOMAIN files
    /\ files[ev.call_sid].status = "completed"
    /\ "completed_at" \in DOMAIN files[ev.call_sid]
    /\ files[ev.call_sid].turn_count \in 1..24
    /\ Len(files[ev.call_sid].transcript) = files[ev.call_sid].turn_count

\* C11: the call-completed signal for a call id with no session (never
\* created, or removed by an earlier completed signal) answers OK and leaves
\* the registry, every session and the transcript store as they were.
C11_CompletedIdempotent ==
    [][(/\ ev'.handler = "call_status"
        /\ ev'.arg = "completed"
        /\ ev'.call_sid \notin DOMAIN active_calls) =>
          /\ active_calls' = active_calls
          /\ files' = files
          /\ response' = OkBody]_vars

\* C11's case: a second completed signal for a call whose session the first
\* one removed, the completed snapshot still in the store
C11_Witness ==
    /\ ev.handler = "call_status"
    /\ ev.arg = "completed"
    /\ ~ev.had_session
    /\ ev.call_sid \in DOMAIN files
    /\ files[ev.call_sid].status = "completed"
    /\ files[ev.call_sid].turn_count > 0

\* C12: a call id leaves the registry only in a call-status event whose
\* status is completed; agent utterances (those that end the call included),
\* voice webhooks, recording-complete events and other status signals remove
\* none.
C12_OnlyCompletedRemoves ==
    [][\A c \in DOMAIN active_calls :
          c \notin DOMAIN active_calls' =>
             /\ ev'.handler = "call_status"
             /\ ev'.arg = "completed"
             /\ ev'.call_sid = c]_vars

\* C12's case: an agent utterance has ended the call on the turn cap and the
\* session is still in the registry
C12_Witness ==
    /\ Handled
    /\ ShouldEndExit
    /\ ev.call_sid \in DOMAIN active_calls
    /\ Session.turn_count >= 25

\* the patient said `text`, it is the transcript's last turn, and the
\* handler listens on
SaidAndListening(text) ==
    /\ ev.exit = "reply"
    /\ RepliesAndListens
    /\ response[2] = Say(text)
    /\ ev.call_sid \in DOMAIN active_calls
    /\ LastTurn.speaker = "patient"
    /\ LastTurn.text = text
    /\ Session.turn_count = ev.turn_count + 1

\* C19: when the completion call made for an agent utterance fails, the
\* failure is absorbed: the call was made once and not again, the patient
\* says "I'm sorry, could you repeat that?", that line is appended as a
\* patient turn and the handler issues a listen directive rather than ending
\* the call.
C19_CompletionFailureAbsorbed ==
    (Handled /\ ev.llm.kind = "raise") =>
        /\ ev.llm_calls = 1
        /\ SaidAndListening(REPEAT_THAT)
        /\ ~HasVerb(response, "Hangup")

\* C19's case: the completion call raised in the middle of a conversation
C19_Witness ==
    /\ Handled
    /\ ev.llm = LlmRaises
    /\ ev.turn_count >= MIN_TURNS_BEFORE_CLOSE
    /\ LastTurn.text = REPEAT_THAT
    /\ HasVerb(response, "Gather")

\* C20: a candidate reply of the completion call that is empty, shorter than
\* 8 characters or equal, case ignored, to "i need" or "i would like" is
\* replaced with "I'm sorry, could you repeat that?"; that line is spoken and
\* recorded as the patient's turn and the handler keeps listening.
C20_RejectedCandidateReplaced ==
    (/\ Handled
     /\ ev.llm.kind \in {"text", "none"}
     /\ \/ Len(ev.llm.content) = 0
        \/ Len(ev.llm.content) < 8
        \/ \E k \in 1..Len(truncated_fragments) :
              str_lower(ev.llm.content) = truncated_fragments[k]) =>
        /\ ev.llm_calls = 1
        /\ SaidAndListening(REPEAT_THAT)

\* C20's case: a candidate long enough to pass the length test, rejected as
\* a truncated fragment
C20_Witness ==
    /\ Handled
    /\ ev.llm = LlmText(R_I_WOULD_LIKE)
    /\ Len(ev.llm.content) >= 8
    /\ LastTurn.text = REPEAT_THAT
    /\ RepliesAndListens

\* the persona of the scenario generate_reply was applied to
PersonaContext == get_scenario_by_name(fin.scenario).scenario["patient_context"]

\* "Yes, this is {name}."
NameConfirmation ==
    YES_THIS_IS
      \o (IF "name" \in DOMAIN PersonaContext THEN PersonaContext["name"]
          ELSE IF "caller_name" \in DOMAIN PersonaContext THEN PersonaContext["caller_name"]
          ELSE NAME_LUCAS)
      \o <<".">>

\* the date of birth as the scenario has the patient say it
DobPhrasing ==
    IF "dob" \in DOMAIN PersonaContext /\ PersonaContext["dob"] = DOB_1970
    THEN DOB_REPLY_1970 ELSE DOB_REPLY_2026

Replied == fout.op = "generate_reply"

AgentLower == str_lower(fin.agent_text)

\* C15: whenever the agent's utterance holds one of the six verification
\* triggers, generate_reply answers from the persona, with the name
\* confirmation or the date of birth, and makes no completion call.
C15_VerificationDeterministic ==
    (/\ Replied
     /\ \E k \in 1..Len(verification_phrases) : str_in(verification_phrases[k], AgentLower)) =>
        /\ fout.llm_calls = 0
        /\ fout.reply \in {NameConfirmation, DobPhrasing}

\* C16: for the same scenario and the same utterance holding "date of
\* birth", two runs with different histories give the same reply, and it is
\* the scenario's date-of-birth phrasing.
C16_DobReplyIgnoresHistory ==
    (Replied /\ str_in(DATE_OF_BIRTH, AgentLower)) =>
        /\ fout.reply = fout.other_reply
        /\ fout.reply = DobPhrasing

\* the goal evaluator's verdict, from the category table: the first category
\* named in the goal is the goal's category, and the text must hold one of
\* that category's completion indicators
GoalJudgedSatisfied(goal_text, conversation_text) ==
    \E k \in 1..Len(goal_keywords) :
        /\ str_in(goal_keywords[k].goal_type, str_lower(goal_text))
        /\ \A j \in 1..(k - 1) : ~str_in(goal_keywords[j].goal_type, str_lower(goal_text))
        /\ \E i \in 1..Len(goal_keywords[k].keywords) :
              str_in(goal_keywords[k].keywords[i], str_lower(conversation_text))

\* all prior dialogue history plus the current utterance
DialogueText ==
    str_join(<<" ">>, [i \in 1..Len(fin.history) |-> fin.history[i].content])
      \o <<" ">> \o fin.agent_text

ClosingOffer ==
    \E k \in 1..Len(completion_signals) : str_in(completion_signals[k], AgentLower)

\* the utterance asks for the name or the date of birth in the
\* verification phase
AsksIdentity ==
    /\ \E k \in 1..Len(verification_phrases) : str_in(verification_phrases[k], AgentLower)
    /\ \/ str_in(SPEAKING_WITH, AgentLower)
       \/ str_in(YOUR_NAME, AgentLower)
       \/ str_in(WHO_IS_THIS, AgentLower)
       \/ str_in(DATE_OF_BIRTH, AgentLower)
       \/ str_in(DOB_WORD, AgentLower)

\* C17 as stated: on a closing offer with the goal judged satisfied over the
\* history plus the utterance, the reply is exactly "No, that's all. Thank
\* you!" and no completion call is made.
C17_Original ==
    (/\ Replied
     /\ ClosingOffer
     /\ GoalJudgedSatisfied(PersonaContext["goal"], DialogueText)) =>
        /\ fout.reply = NO_THATS_ALL
        /\ fout.llm_calls = 0

\* C17, amended: the same, for a closing offer that does not also ask for
\* the name or the date of birth; the history is left as it was.
C17_ClosingOfferAcknowledged ==
    (/\ Replied
     /\ ClosingOffer
     /\ ~AsksIdentity
     /\ GoalJudgedSatisfied(PersonaContext["goal"], DialogueText)) =>
        /\ fout.reply = NO_THATS_ALL
        /\ fout.llm_calls = 0
        /\ fout.history = fin.history

\* C17's case: the indicator was said in an earlier exchange, the offer
\* comes now
C17_Witness ==
    /\ Replied
    /\ fin.agent_text = AgentLines.offer
    /\ fin.history = Exchange(HistoryLines.scheduled, HistoryLines.great)
    /\ fin.scenario = "appointment_scheduling"
    /\ fout.reply = NO_THATS_ALL
    /\ fout.llm_calls = 0

\* C18: the goal evaluator returns true iff the goal names a known category
\* and the conversation text holds a completion indicator of that category;
\* for a goal that names no category it returns false on every text.  It
\* changes nothing.
C18_GoalEvaluator ==
    fout.op = "is_goal_completed" =>
        /\ fout.result = GoalJudgedSatisfied(fin.goal, fin.conversation_text)
        /\ (\A k \in 1..Len(goal_keywords) :
               ~str_in(goal_keywords[k].goal_type, str_lower(fin.goal))) => ~fout.result
        /\ active_calls = <<>> /\ files = <<>>

\* C18's case: a cancellation goal met by a cancellation indicator
C18_Witness ==
    /\ fout.op = "is_goal_completed"
    /\ fin.goal = GOAL_CANCEL
    /\ fin.conversation_text = ConversationLines.canceled
    /\ fout.result

\* the sessions made so far for call_sid
SessionsOf(call_sid) == {o \in DOMAIN heap : heap[o].call_sid = call_sid}

\* C13: however the first events for a call id (voice webhook, agent
\* utterance, call placement) interleave, one CallSession is made for it,
\* every handler works on that session, and every turn a handler recorded is
\* in the session the registry holds.
C13_OneSessionPerCall ==
    ev.begun \subseteq {"voice_webhook", "handle_agent_response", "make_call"} =>
        \A c \in CallSids :
            /\ Cardinality(SessionsOf(c)) <= 1
            /\ \A t \in Threads :
                  (threads[t].call_sid = c /\ threads[t].session # 0) =>
                      (c \in DOMAIN active_calls /\ active_calls[c] = threads[t].session)
            /\ \A o \in SessionsOf(c) :
                  heap[o].turn_count > 0 =>
                      (c \in DOMAIN active_calls /\ active_calls[c] = o)

\* C14: however agent-utterance events and call-status events for one call
\* id interleave, no handler fails: every event is answered normally.
C14_NoHandlerFails ==
    ev.begun \subseteq {"handle_agent_response", "call_status"} =>
        response # InternalServerError

\* C21: whenever generate_reply succeeds in returning a patient utterance
\* (it neither raised nor fell back on the clarification after a failed
\* completion call), the dialogue history it leaves is the history it found
\* followed by exactly two entries: the agent's utterance, then the reply
\* returned.
C21_HistoryExtendedOnSuccess ==
    (/\ Replied
     /\ ~fout.raised
     /\ ~(fout.llm_calls = 1 /\ fin.llm.kind = "raise")) =>
        fout.history =
            fin.history \o
                << [role |-> "user", content |-> AGENT_PREFIX \o fin.agent_text],
                   [role |-> "assistant", content |-> fout.reply] >>

\* the fixed rule table in its order: date of birth or birthday, then phone,
\* callback or number, then name, else the generic acknowledgment
RuleTableAnswer(agent_lower) ==
    IF str_in(DATE_OF_BIRTH, agent_lower) \/ str_in(dob_keys[2], agent_lower)
    THEN FALLBACK_DOB
    ELSE IF \E k \in 1..3 : str_in(phone_keys[k], agent_lower)
    THEN THATS_CORRECT
    ELSE IF str_in(NAME_KEY, agent_lower)
    THEN NAME_LUCAS
    ELSE OKAY_THANK_YOU

\* C22: a session created for a scenario that does not load is still
\* created, without a conversation manager, and the webhook answers as
\* usual; every later agent utterance of that session that does not end the
\* call is answered from the fixed rule table in its order, spoken, recorded
\* and listened after, and the completion API is never called.
C22_DegradedSessionAnswersFromRules ==
    /\ (ev.handler = "voice_webhook" /\ ev.arg = "no_such_scenario") =>
           /\ ev.call_sid \in DOMAIN active_calls
           /\ Session.conversation_manager = NoManager
           /\ Session.scenario_name = "no_such_scenario"
           /\ response = voice_twiml
    /\ (/\ Handled
        /\ ~Session.conversation_manager.present
        /\ ~ClosingExit /\ ~ShouldEndExit) =>
           /\ ev.llm_calls = 0
           /\ SaidAndListening(RuleTableAnswer(str_lower(ev.speech)))

\* a degraded session answers an utterance that names both the name and the
\* callback number by the phone rule
C22_Witness ==
    /\ Handled
    /\ ~Session.conversation_manager.present
    /\ ev.speech = FallbackLines.name_callback
    /\ ev.turn_count = 1
    /\ SaidAndListening(THATS_CORRECT)

\* C23: when a transcript write fails during a handler (the agent-utterance
\* handler, the call-status handler, the recording handler), the failure is
\* absorbed: the handler answers what it would have answered and leaves
\* every session, its turn_count, transcript and goal_achieved included, as
\* it would have had the write succeeded.
C23_WriteFailureAbsorbed ==
    (/\ ev.handler \in {"handle_agent_response", "call_status", "recording_complete"}
     /\ ~ev.writes_ok) =>
        /\ response = ev.ideal.response
        /\ active_calls = ev.ideal.active_calls

\* the agent-utterance handler lost its last transcript write and still
\* answered with a reply and a listen, the patient's turn recorded in the
\* session and missing from the store
C23_Witness ==
    /\ Handled
    /\ ~ev.writes_ok
    /\ SaidAndListening(R_MONDAY)
    /\ ev.call_sid \in DOMAIN files
    /\ files[ev.call_sid].turn_count < Session.turn_count

\* C25: an event for call id a (agent utterance, voice webhook, call status,
\* recording complete) leaves every other call id b as it was: whether b has
\* a session, that session (turn_count, transcript, goal_achieved, dialogue
\* history), and b's persisted snapshot.
C25_SessionsIndependent ==
    [][\A a \in SessionSids, b \in SessionSids :
          (a # b /\ ev'.call_sid = a) =>
              /\ (b \in DOMAIN active_calls') = (b \in DOMAIN active_calls)
              /\ b \in DOMAIN active_calls => active_calls'[b] = active_calls[b]
              /\ (b \in DOMAIN files') = (b \in DOMAIN files)
              /\ b \in DOMAIN files => files'[b] = files[b]]_vars

\* an utterance for CA1 was answered while CA2 had a session with recorded
\* turns and a persisted snapshot
C25_Witness ==
    /\ Handled
    /\ ev.call_sid = "CA1"
    /\ ev.exit = "reply"
    /\ "CA2" \in DOMAIN active_calls
    /\ active_calls["CA2"].turn_count > 0
    /\ "CA2" \in DOMAIN files

FinalSnapshot(call_sid) ==
    /\ call_sid \in DOMAIN files
    /\ files[call_sid].status = "completed"
    /\ "duration_seconds" \in DOMAIN files[call_sid]

\* C26: once the call-completed handler has persisted the final snapshot of
\* a call (status completed, with the duration), no agent-utterance handler
\* for that call id writes the call's snapshot again: the step in which such
\* a handler finishes leaves the snapshot as it was.
C26_FinalSnapshotStays ==
    [][\A t \in Threads :
          (/\ threads[t].handler = "handle_agent_response"
           /\ threads'[t] = Idle
           /\ FinalSnapshot(threads[t].call_sid)) =>
              files'[threads[t].call_sid] = files[threads[t].call_sid]]_vars

\* C27: every end phrase of should_end_call is a sign-off phrase of the
\* closing-utterance detector, which handle_agent_response asks first, so
\* the should-end exit (the spoken goodbye and the hang-up) is taken only on
\* the safety cap, with turn_count at 25 or more, the agent's utterance
\* counted.
C27_ShouldEndOnlyOnCap ==
    /\ \A i \in 1..Len(end_phrases) :
          \E j \in 1..Len(CLOSING_PHRASES) : CLOSING_PHRASES[j] = end_phrases[i]
    /\ (Handled /\ ShouldEndExit) =>
           /\ ev.turn_count >= 25
           /\ ~is_closing_utterance(ev.speech)

\* the should-end exit was taken, at turn 25
C27_Witness ==
    /\ Handled
    /\ ShouldEndExit
    /\ ev.turn_count = 25
    /\ response = goodbye_twiml

\* how many turns of a transcript are the patient's
PatientTurns(transcript) ==
    Cardinality({i \in 1..Len(transcript) : transcript[i].speaker = "patient"})

\* C28: a session never holds more than 12 patient turns; a patient reply
\* is produced only when turn_count, the agent's utterance counted, is at
\* most 24; and from turn 25 on every agent utterance is answered with an
\* ending response (the empty one or the spoken goodbye with the hang-up),
\* without a listen and without a completion call.
C28_AtMostTwelvePatientTurns ==
    /\ \A c \in DOMAIN active_calls :
          PatientTurns(active_calls[c].transcript) <= 12
    /\ (Handled /\ ev.exit \in {"reply", "empty_reply"}) => ev.turn_count <= 24
    /\ (Handled /\ ev.turn_count >= 25) =>
           /\ ClosingExit \/ ShouldEndExit
           /\ response \in {<<>>, goodbye_twiml}
           /\ ev.llm_calls = 0
           /\ PatientTurns(Session.transcript) <= 12

\* a session with 12 patient turns was ended at turn 25 and got one more
\* utterance, which was answered with the ending response
C28_Witness ==
    /\ Handled
    /\ ev.turn_count = 26
    /\ PatientTurns(Session.transcript) = 12
    /\ response = goodbye_twiml

\* the categories, by their place in the table, whose name occurs in the goal
CategoriesNamed(goal_text) ==
    {k \in 1..Len(goal_keywords) :
        str_in(goal_keywords[k].goal_type, str_lower(goal_text))}

\* the text holds a completion indicator of category k
HoldsIndicator(k, conversation_text) ==
    \E i \in 1..Len(goal_keywords[k].keywords) :
        str_in(goal_keywords[k].keywords[i], str_lower(conversation_text))

\* C29: the categories are tried in the order appointment, refill,
\* reschedule, cancel, and for a goal that names more than one of them only
\* the first is consulted: the goal counts as satisfied exactly when the text
\* holds an indicator of that first category, so an indicator of a later
\* category named in the goal never satisfies it.
C29_OnlyFirstCategoryConsulted ==
    /\ goal_keywords[1].goal_type = <<"a","p","p","o","i","n","t","m","e","n","t">>
    /\ goal_keywords[2].goal_type = <<"r","e","f","i","l","l">>
    /\ goal_keywords[3].goal_type = <<"r","e","s","c","h","e","d","u","l","e">>
    /\ goal_keywords[4].goal_type = <<"c","a","n","c","e","l">>
    /\ (/\ fout.op = "is_goal_completed"
        /\ Cardinality(CategoriesNamed(fin.goal)) > 1) =>
           \A k \in CategoriesNamed(fin.goal) :
               (\A j \in CategoriesNamed(fin.goal) : k <= j) =>
                   fout.result = HoldsIndicator(k, fin.conversation_text)

\* "Reschedule my appointment" names appointment and reschedule; "Moved to a
\* new time" holds an indicator of reschedule only, and the goal is not
\* satisfied
C29_Witness ==
    /\ fout.op = "is_goal_completed"
    /\ fin.goal = GOAL_RESCHEDULE
    /\ CategoriesNamed(fin.goal) = {1, 3}
    /\ fin.conversation_text = ConversationLines.moved
    /\ HoldsIndicator(3, fin.conversation_text)
    /\ ~HoldsIndicator(1, fin.conversation_text)
    /\ ~fout.result

\* C30: with the events of a session handled one at a time, after every
\* handler the session's turn_count is the length of its transcript and the
\* turn field of every transcript entry is its 0-based position there, so
\* the turn indices are unique and strictly increasing.
C30_TurnCountIsTranscriptLength ==
    \A c \in DOMAIN active_calls :
        /\ active_calls[c].turn_count = Len(active_calls[c].transcript)
        /\ \A i \in 1..Len(active_calls[c].transcript) :
              active_calls[c].transcript[i].turn = i - 1

\* a session that answered one utterance and then left by the closing exit
\* on the next: three turns, the last one the agent's
C30_Witness ==
    /\ Handled
    /\ ClosingExit
    /\ Session.turn_count = 3
    /\ Len(Session.transcript) = 3
    /\ Session.transcript[2].speaker = "patient"
    /\ Session.transcript[3].turn = 2

\* the dialogue history of a conversation manager is made of exchanges, the
\* agent's line (role user) and then the patient's (role assistant), and
\* turn_count counts them
HistoryPaired(cm) ==
    /\ Len(cm.conversation_history) % 2 = 0
    /\ \A i \in 1..Len(cm.conversation_history) :
          cm.conversation_history[i].role =
              (IF i % 2 = 1 THEN "user" ELSE "assistant")
    /\ 2 * cm.turn_count = Len(cm.conversation_history)

\* C31: in every session that has a conversation manager, the dialogue
\* history has even length with the roles alternating user, assistant,
\* the manager's turn_count is half that length, and it does not exceed the
\* number of patient turns in the session's transcript.
C31_HistoryPairedWithinPatientTurns ==
    \A o \in DOMAIN heap :
        heap[o].conversation_manager.present =>
            /\ HistoryPaired(heap[o].conversation_manager)
            /\ heap[o].conversation_manager.turn_count <=
                   PatientTurns(heap[o].transcript)

\* C32: within one session, the snapshot an agent-utterance handler leaves
\* persisted has status completed exactly when the session's turn_count is
\* 25 or more or its goal_achieved is true, and the statuses of the
\* snapshots persisted for the session, the final one of the call-completed
\* handler included, never go from completed back to in_progress.
C32_SnapshotStatusNeverReverts ==
    [][\A t \in Threads :
          (threads[t].pc = "handler_respond" /\ threads'[t] = Idle) =>
              /\ files'[threads[t].call_sid].status = "completed" <=>
                     \/ heap'[threads[t].session].turn_count >= 25
                     \/ heap'[threads[t].session].goal_achieved
              /\ (/\ SessionsOf(threads[t].call_sid) = {threads[t].session}
                  /\ threads[t].call_sid \in DOMAIN files
                  /\ files[threads[t].call_sid].status = "completed") =>
                     files'[threads[t].call_sid].status = "completed"]_vars

\* the snapshot persisted for call_sid carries a Whisper transcription
Enriched(fs, call_sid) ==
    /\ call_sid \in DOMAIN fs
    /\ "whisper_transcription" \in DOMAIN fs[call_sid]

\* C33: once Whisper enrichment has succeeded for a call, the snapshot
\* persisted for the call contains whisper_transcription after every later
\* event, in whichever order the recording-complete signal, the
\* call-completed signal and the per-turn saves are processed; the
\* recording-complete handler changes no other field of the snapshot, and
\* writes nothing when the call has no snapshot.
C33_WhisperTranscriptionStays ==
    [][/\ \A c \in CallSids : Enriched(files, c) => Enriched(files', c)
       /\ (ev'.handler = "recording_complete" /\ ev'.call_sid \notin DOMAIN files) =>
              files' = files
       /\ (ev'.handler = "recording_complete" /\ ev'.call_sid \in DOMAIN files) =>
              /\ DOMAIN files' = DOMAIN files
              /\ DOMAIN files'[ev'.call_sid] \ {"whisper_transcription"} =
                     DOMAIN files[ev'.call_sid] \ {"whisper_transcription"}
              /\ \A k \in DOMAIN files[ev'.call_sid] \ {"whisper_transcription"} :
                     files'[ev'.call_sid][k] = files[ev'.call_sid][k]]_vars

\* C34: the patient reply handle_agent_response hands to speech rendering is
\* never empty: whenever the handler takes neither the closing exit nor the
\* should-end exit, it says a non-empty reply, listens again and records
\* that reply as the patient's turn; the empty-reply branch, which says
\* "Thank you, goodbye." and hangs up, is never taken.
C34_ReplyNeverEmpty ==
    (Handled /\ ~ClosingExit /\ ~ShouldEndExit) =>
        /\ ev.exit = "reply"
        /\ RepliesAndListens
        /\ response # goodbye_twiml
        /\ LastTurn.speaker = "patient"
        /\ LastTurn.text = response[2].arg

\* the completion API answered with no content and the handler said the
\* request to repeat and went on listening
C34_Witness ==
    /\ Handled
    /\ ev.llm = LlmNone
    /\ SaidAndListening(REPEAT_THAT)

====
